---- MODULE Spec2Model ----
(***************************************************************************)
(* A model of the revset evaluation engine of lib/src/default_revset_engine *)
(* (PredicateMatch, the internal set kinds with their iterators and probes) *)
(* of IdIndex, of RevsetImpl::change_id_index, and of the compilation of an  *)
(* expression into a set (evaluate, take_latest_revset).                    *)
(*                                                                          *)
(* An IndexEntry is a handle into the commit index: it is modelled by its   *)
(* IndexPosition (a natural number); parent_positions() reads the index.    *)
(* Option<T> is a sequence of length at most one: <<>> is None, <<x>> is    *)
(* Some(x).                                                                 *)
(***************************************************************************)
EXTENDS Integers, Sequences, FiniteSets, TLC

VARIABLES
    index,      \* the commit index: position -> set of parent positions
    revset,     \* the internal set under test (a tree of set kinds)
    pc,         \* "built" | "iterating" | "drained" | "probing" | "id"
    cursor,     \* the iterator returned by revset.iter()
    emitted,    \* the positions the cursor's next() has returned so far
    probe,      \* the probe returned by revset.to_predicate_fn()
    probed,     \* the calls made on the probe: <<position, result>> pairs
    id_input,   \* the vector handed to IdIndex::from_vec
    id_index,   \* the IdIndex: the sorted vector of <<key, value>> pairs
    id_prefix,  \* the hex digits of the last prefix looked up
    id_result,  \* the PrefixResolution of the last lookup
    id_key,     \* the key last handed to shortest_unique_prefix_len
    id_len,     \* what shortest_unique_prefix_len returned for it
    timestamps, \* the store: position -> committer timestamp of the commit
    change_ids, \* the commit index: position -> change id of the entry
    visible_heads, \* the commit ids of the visible heads handed to evaluate
    expression, \* the RevsetExpression handed to evaluate
    inner_result, \* what evaluating the operand of Present returned
    outcome,    \* what evaluate did: a set, an error, or a panic
    count,      \* the count handed to take_latest_revset
    cursor2,    \* the iterator returned by a second revset.iter()
    emitted2,   \* the positions the second cursor's next() has returned
    answers,    \* the PredicateMatch values that probes returned at an entry
    combined    \* the calls of and / or / and_not made on them, with results

vars == <<index, revset, pc, cursor, emitted, probe, probed,
          id_input, id_index, id_prefix, id_result, id_key, id_len,
          timestamps, change_ids, visible_heads, expression, inner_result,
          outcome, count, cursor2, emitted2, answers, combined>>

revsetVars == <<index, revset, cursor, emitted, probe, probed>>
idVars == <<id_input, id_index, id_prefix, id_result, id_key, id_len>>
evalVars ==
    <<timestamps, change_ids, visible_heads, expression, inner_result, outcome,
      count>>
secondVars == <<cursor2, emitted2>>
matchVars == <<answers, combined>>

(***************************************************************************)
(* Bounds                                                                   *)
(***************************************************************************)
\* Number of commits in the index: positions 0 .. NumCommits-1.
NumCommits == 3
\* Number of positions the leaves of a two-level composition range over.
NestedCommits == 2
\* Longest vector handed to IdIndex::from_vec.
MaxEntries == 3
\* The number of calls of a probe at one position.
MaxCalls == 2
\* The number of PredicateMatch values combined at one entry.
MaxAnswers == 3
\* The length of a list of commit ids handed to Commits or as visible heads.
MaxIds == 3

Positions == 0 .. (NumCommits - 1)

(***************************************************************************)
(* Option and small helpers                                                 *)
(***************************************************************************)
None == <<>>
Some(x) == <<x>>

Max(S) == CHOOSE m \in S : \A x \in S : x <= m

RECURSIVE DescSeq(_)
\* The elements of a finite set of positions as a strictly descending sequence.
DescSeq(S) == IF S = {} THEN <<>> ELSE <<Max(S)>> \o DescSeq(S \ {Max(S)})

SeqToSet(s) == {s[i] : i \in 1 .. Len(s)}

StrictlyDescending(s) == \A i \in 1 .. (Len(s) - 1) : s[i] > s[i + 1]

(***************************************************************************)
(* PredicateMatch and its combinators                                       *)
(***************************************************************************)
Match == "Match"
NotThisOne == "NotThisOne"
NeverAgain == "NeverAgain"
PredicateMatch == {Match, NotThisOne, NeverAgain}

\* Faulty variant of from_boolean: false ends the probe.
from_boolean_never_again(b) == IF b THEN Match ELSE NeverAgain

from_boolean(b) == IF b THEN Match ELSE NotThisOne

\* Faulty variant of and: the arm (_, NeverAgain) is missing.
and_without_second_never_again(self, other) ==
    CASE self = Match /\ other = Match -> Match
      [] self = NeverAgain -> NeverAgain
      [] OTHER -> NotThisOne

and(self, other) ==
    CASE self = Match /\ other = Match -> Match
      [] self = NeverAgain -> NeverAgain
      [] other = NeverAgain -> NeverAgain
      [] OTHER -> NotThisOne

\* Faulty variant of or: the arm for two NeverAgain is missing.
or_without_never_again(self, other) ==
    CASE self = Match -> Match
      [] other = Match -> Match
      [] OTHER -> NotThisOne

\* Faulty variant of or: the arm (_, Match) is missing.
or_without_second_match(self, other) ==
    CASE self = NeverAgain /\ other = NeverAgain -> NeverAgain
      [] self = Match -> Match
      [] OTHER -> NotThisOne

or(self, other) ==
    CASE self = NeverAgain /\ other = NeverAgain -> NeverAgain
      [] self = Match -> Match
      [] other = Match -> Match
      [] OTHER -> NotThisOne

\* Faulty variant of and_not: a Match of the subtrahend is not looked at.
and_not_ignoring_match(self, other) ==
    CASE self = NeverAgain -> NeverAgain
      [] self = Match -> Match
      [] OTHER -> NotThisOne

\* Faulty variant of and_not: NeverAgain of the subtrahend ends the difference.
and_not_propagating_never_again(self, other) ==
    CASE self = NeverAgain -> NeverAgain
      [] other = NeverAgain -> NeverAgain
      [] other = Match -> NotThisOne
      [] self = Match -> Match
      [] OTHER -> NotThisOne

\* Faulty variant of and_not: the arm (Match, _) comes before (_, Match).
and_not_match_first(self, other) ==
    CASE self = NeverAgain -> NeverAgain
      [] self = Match -> Match
      [] other = Match -> NotThisOne
      [] OTHER -> NotThisOne

and_not(self, other) ==
    CASE self = NeverAgain -> NeverAgain
      [] other = Match -> NotThisOne
      [] self = Match -> Match
      [] OTHER -> NotThisOne

(***************************************************************************)
(* The set kinds                                                            *)
(***************************************************************************)
EagerRevset(entries) == [kind |-> "Eager", index_entries |-> entries]
RevWalkRevset(walk) == [kind |-> "Walk", walk |-> walk]
ChildrenRevset(roots, candidates) ==
    [kind |-> "Children", root_set |-> roots, candidate_set |-> candidates]
FilterRevset(candidates, predicate) ==
    [kind |-> "Filter", candidates |-> candidates, predicate |-> predicate]
UnionRevset(set1, set2) == [kind |-> "Union", set1 |-> set1, set2 |-> set2]
DifferenceRevset(set1, set2) ==
    [kind |-> "Difference", set1 |-> set1, set2 |-> set2]
\* A pure predicate (build_predicate_fn): the positions on which it is true.
PurePredicateFn(truths) == [kind |-> "Pure", truths |-> truths]

parent_positions(entry) == index[entry]

(***************************************************************************)
(* Standard iterator adapters: slice::Iter, Fuse, Peekable                  *)
(***************************************************************************)
VecIter(entries) == [kind |-> "VecIter", rest |-> entries]
Fuse(it) == [kind |-> "Fuse", iter |-> Some(it)]
Peekable(it) == [kind |-> "Peekable", iter |-> it, peeked |-> None]

RECURSIVE IterNext(_)
RECURSIVE ProbeCall(_, _)
RECURSIVE NewIter(_)
RECURSIVE NewProbe(_)
RECURSIVE CollectPositions(_)
RECURSIVE ChildrenNext(_)
RECURSIVE FilterNext(_)
RECURSIVE DifferenceNext(_)
RECURSIVE SkipHigher(_, _)
RECURSIVE SkipHigherOrEqual(_, _)
RECURSIVE FilterNextBreakOnMiss(_)
RECURSIVE ChildrenNextAllParents(_)
RECURSIVE FilterNextContinueOnNeverAgain(_)
RECURSIVE DifferenceNextStopWithSet2(_)
RECURSIVE DifferenceNextKeepEqual(_)

\* Peekable::next: the peeked value if there is one, else the inner next().
PeekableNext(pk) ==
    IF pk.peeked # None
    THEN [item |-> pk.peeked[1], iter |-> [pk EXCEPT !.peeked = None]]
    ELSE LET r == IterNext(pk.iter)
         IN [item |-> r.item, iter |-> [pk EXCEPT !.iter = r.iter]]

\* Peekable::peek: pulls the inner next() once and remembers it.
PeekablePeek(pk) ==
    IF pk.peeked # None
    THEN [item |-> pk.peeked[1], iter |-> pk]
    ELSE LET r == IterNext(pk.iter)
         IN [item |-> r.item,
             iter |-> [pk EXCEPT !.iter = r.iter, !.peeked = Some(r.item)]]

\* Fuse::next: once the inner iterator returns None it is dropped.
FuseNext(fu) ==
    IF fu.iter = None
    THEN [item |-> None, iter |-> fu]
    ELSE LET r == IterNext(fu.iter[1])
         IN IF r.item = None
            THEN [item |-> None, iter |-> [fu EXCEPT !.iter = None]]
            ELSE [item |-> r.item, iter |-> [fu EXCEPT !.iter = Some(r.iter)]]

VecIterNext(it) ==
    IF it.rest = <<>>
    THEN [item |-> None, iter |-> it]
    ELSE [item |-> Some(Head(it.rest)), iter |-> [it EXCEPT !.rest = Tail(it.rest)]]

(***************************************************************************)
(* ChildrenRevset::iter: the root positions are collected when iter() is    *)
(* called; the candidates are then filtered lazily.                         *)
(***************************************************************************)
\* Faulty variant of CollectPositions: no root is collected when iter() is called.
CollectNoPositions(it) == {}

\* Drains an iterator into the set of the positions it yields.
CollectPositions(it) ==
    LET r == IterNext(it)
    IN IF r.item = None THEN {} ELSE {r.item[1]} \cup CollectPositions(r.iter)

\* Faulty variant of ChildrenNext: every parent of a child must be a root.
ChildrenNextAllParents(it) ==
    LET r == IterNext(it.candidates)
        it2 == [it EXCEPT !.candidates = r.iter]
    IN IF r.item = None THEN [item |-> None, iter |-> it2]
       ELSE IF /\ parent_positions(r.item[1]) # {}
               /\ parent_positions(r.item[1]) \subseteq it.roots
            THEN [item |-> r.item, iter |-> it2]
            ELSE ChildrenNextAllParents(it2)

ChildrenNext(it) ==
    LET r == IterNext(it.candidates)
        it2 == [it EXCEPT !.candidates = r.iter]
    IN IF r.item = None THEN [item |-> None, iter |-> it2]
       ELSE IF parent_positions(r.item[1]) \cap it.roots # {}
            THEN [item |-> r.item, iter |-> it2]
            ELSE ChildrenNext(it2)

(***************************************************************************)
(* FilterRevsetIterator::next                                               *)
(***************************************************************************)
\* Faulty variant of FilterNext: NotThisOne ends the iteration like NeverAgain.
FilterNextBreakOnMiss(it) ==
    LET r == IterNext(it.candidates_iter)
    IN IF r.item = None
       THEN [item |-> None, iter |-> [it EXCEPT !.candidates_iter = r.iter]]
       ELSE LET m == ProbeCall(it.predicate, r.item[1])
                it2 == [it EXCEPT !.candidates_iter = r.iter, !.predicate = m.probe]
            IN CASE m.result = Match -> [item |-> r.item, iter |-> it2]
                 [] OTHER -> [item |-> None, iter |-> it2]

\* Faulty variant of FilterNext: NeverAgain skips the candidate like NotThisOne.
FilterNextContinueOnNeverAgain(it) ==
    LET r == IterNext(it.candidates_iter)
    IN IF r.item = None
       THEN [item |-> None, iter |-> [it EXCEPT !.candidates_iter = r.iter]]
       ELSE LET m == ProbeCall(it.predicate, r.item[1])
                it2 == [it EXCEPT !.candidates_iter = r.iter, !.predicate = m.probe]
            IN CASE m.result = Match -> [item |-> r.item, iter |-> it2]
                 [] OTHER -> FilterNextContinueOnNeverAgain(it2)

FilterNext(it) ==
    LET r == IterNext(it.candidates_iter)
    IN IF r.item = None
       THEN [item |-> None, iter |-> [it EXCEPT !.candidates_iter = r.iter]]
       ELSE LET m == ProbeCall(it.predicate, r.item[1])
                it2 == [it EXCEPT !.candidates_iter = r.iter, !.predicate = m.probe]
            IN CASE m.result = Match -> [item |-> r.item, iter |-> it2]
                 [] m.result = NotThisOne -> FilterNext(it2)
                 [] OTHER -> [item |-> None, iter |-> it2]

(***************************************************************************)
(* UnionRevsetIterator::next                                                *)
(***************************************************************************)
\* Faulty variant of UnionNext: on equal positions only iter1 is advanced.
UnionNextNoDedup(it) ==
    LET k1 == PeekablePeek(it.iter1)
        k2 == PeekablePeek(it.iter2)
        it2 == [it EXCEPT !.iter1 = k1.iter, !.iter2 = k2.iter]
        n1 == PeekableNext(it2.iter1)
        n2 == PeekableNext(it2.iter2)
        take1 == [item |-> n1.item, iter |-> [it2 EXCEPT !.iter1 = n1.iter]]
        take2 == [item |-> n2.item, iter |-> [it2 EXCEPT !.iter2 = n2.iter]]
    IN CASE k1.item = None -> take2
         [] k2.item = None -> take1
         [] k1.item[1] < k2.item[1] -> take2
         [] OTHER -> take1

\* Faulty variant of UnionNext: the union ends when iter1 is exhausted.
UnionNextStopWithSet1(it) ==
    LET k1 == PeekablePeek(it.iter1)
        k2 == PeekablePeek(it.iter2)
        it2 == [it EXCEPT !.iter1 = k1.iter, !.iter2 = k2.iter]
        n1 == PeekableNext(it2.iter1)
        n2 == PeekableNext(it2.iter2)
        take1 == [item |-> n1.item, iter |-> [it2 EXCEPT !.iter1 = n1.iter]]
        take2 == [item |-> n2.item, iter |-> [it2 EXCEPT !.iter2 = n2.iter]]
        both == [item |-> n2.item,
                 iter |-> [it2 EXCEPT !.iter1 = n1.iter, !.iter2 = n2.iter]]
    IN CASE k1.item = None -> [item |-> None, iter |-> it2]
         [] k2.item = None -> take1
         [] k1.item[1] < k2.item[1] -> take2
         [] k1.item[1] = k2.item[1] -> both
         [] OTHER -> take1

UnionNext(it) ==
    LET k1 == PeekablePeek(it.iter1)
        k2 == PeekablePeek(it.iter2)
        it2 == [it EXCEPT !.iter1 = k1.iter, !.iter2 = k2.iter]
        n1 == PeekableNext(it2.iter1)
        n2 == PeekableNext(it2.iter2)
        take1 == [item |-> n1.item, iter |-> [it2 EXCEPT !.iter1 = n1.iter]]
        take2 == [item |-> n2.item, iter |-> [it2 EXCEPT !.iter2 = n2.iter]]
        both == [item |-> n2.item,
                 iter |-> [it2 EXCEPT !.iter1 = n1.iter, !.iter2 = n2.iter]]
    IN CASE k1.item = None -> take2
         [] k2.item = None -> take1
         [] k1.item[1] < k2.item[1] -> take2
         [] k1.item[1] = k2.item[1] -> both
         [] OTHER -> take1

(***************************************************************************)
(* DifferenceRevsetIterator::next                                           *)
(***************************************************************************)
\* Faulty variant of DifferenceNext: the difference ends when iter2 is exhausted.
DifferenceNextStopWithSet2(it) ==
    LET k1 == PeekablePeek(it.iter1)
        k2 == PeekablePeek(it.iter2)
        it2 == [it EXCEPT !.iter1 = k1.iter, !.iter2 = k2.iter]
        n1 == PeekableNext(it2.iter1)
        n2 == PeekableNext(it2.iter2)
    IN CASE k1.item = None -> [item |-> None, iter |-> it2]
         [] k2.item = None -> [item |-> None, iter |-> it2]
         [] k1.item[1] < k2.item[1] ->
                DifferenceNextStopWithSet2([it2 EXCEPT !.iter2 = n2.iter])
         [] k1.item[1] = k2.item[1] ->
                DifferenceNextStopWithSet2(
                    [it2 EXCEPT !.iter2 = n2.iter, !.iter1 = n1.iter])
         [] OTHER ->
                [item |-> n1.item, iter |-> [it2 EXCEPT !.iter1 = n1.iter]]

\* Faulty variant of DifferenceNext: on equal positions only iter2 is advanced.
DifferenceNextKeepEqual(it) ==
    LET k1 == PeekablePeek(it.iter1)
        k2 == PeekablePeek(it.iter2)
        it2 == [it EXCEPT !.iter1 = k1.iter, !.iter2 = k2.iter]
        n1 == PeekableNext(it2.iter1)
        n2 == PeekableNext(it2.iter2)
    IN CASE k1.item = None -> [item |-> None, iter |-> it2]
         [] k2.item = None ->
                [item |-> n1.item, iter |-> [it2 EXCEPT !.iter1 = n1.iter]]
         [] k1.item[1] <= k2.item[1] ->
                DifferenceNextKeepEqual([it2 EXCEPT !.iter2 = n2.iter])
         [] OTHER ->
                [item |-> n1.item, iter |-> [it2 EXCEPT !.iter1 = n1.iter]]

DifferenceNext(it) ==
    LET k1 == PeekablePeek(it.iter1)
        k2 == PeekablePeek(it.iter2)
        it2 == [it EXCEPT !.iter1 = k1.iter, !.iter2 = k2.iter]
        n1 == PeekableNext(it2.iter1)
        n2 == PeekableNext(it2.iter2)
    IN CASE k1.item = None -> [item |-> None, iter |-> it2]
         [] k2.item = None ->
                [item |-> n1.item, iter |-> [it2 EXCEPT !.iter1 = n1.iter]]
         [] k1.item[1] < k2.item[1] ->
                DifferenceNext([it2 EXCEPT !.iter2 = n2.iter])
         [] k1.item[1] = k2.item[1] ->
                DifferenceNext([it2 EXCEPT !.iter2 = n2.iter, !.iter1 = n1.iter])
         [] OTHER ->
                [item |-> n1.item, iter |-> [it2 EXCEPT !.iter1 = n1.iter]]

\* Iterator::next, dispatched on the iterator's type.
IterNext(it) ==
    CASE it.kind = "VecIter" -> VecIterNext(it)
      [] it.kind = "Fuse" -> FuseNext(it)
      [] it.kind = "Peekable" -> PeekableNext(it)
      [] it.kind = "ChildrenIter" -> ChildrenNext(it)
      [] it.kind = "FilterIter" -> FilterNext(it)
      [] it.kind = "UnionIter" -> UnionNext(it)
      [] it.kind = "DifferenceIter" -> DifferenceNext(it)

(***************************************************************************)
(* predicate_fn_from_iter and the probes of the set kinds                   *)
(***************************************************************************)
\* Faulty variant of SkipHigher: the entry at the probed position is skipped too.
SkipHigherOrEqual(pk, pos) ==
    LET n == PeekableNext(pk)
    IN IF n.item # None /\ n.item[1] >= pos
       THEN SkipHigherOrEqual(n.iter, pos)
       ELSE [n.iter EXCEPT !.peeked = Some(n.item)]

\* Faulty variant of SkipHigher: next_if is called once, not in a loop.
SkipOneHigher(pk, pos) ==
    LET n == PeekableNext(pk)
    IN IF n.item # None /\ n.item[1] > pos
       THEN n.iter
       ELSE [n.iter EXCEPT !.peeked = Some(n.item)]

\* while iter.next_if(|e| e.position() > entry.position()).is_some() {}
\* next_if takes next() and, when the test fails, puts the value back.
SkipHigher(pk, pos) ==
    LET n == PeekableNext(pk)
    IN IF n.item # None /\ n.item[1] > pos
       THEN SkipHigher(n.iter, pos)
       ELSE [n.iter EXCEPT !.peeked = Some(n.item)]

\* Faulty variant of IterProbeCall: an entry below the probed one ends the probe.
IterProbeCallEndingOnMiss(pr, pos) ==
    LET pk == SkipHigher(pr.iter, pos)
        k == PeekablePeek(pk)
    IN CASE k.item = None -> [result |-> NeverAgain, probe |-> [pr EXCEPT !.iter = k.iter]]
         [] k.item[1] = pos ->
                [result |-> Match,
                 probe |-> [pr EXCEPT !.iter = PeekableNext(k.iter).iter]]
         [] OTHER -> [result |-> NeverAgain, probe |-> [pr EXCEPT !.iter = k.iter]]

\* Faulty variant of IterProbeCall: a matched entry is not consumed.
IterProbeCallKeepingEntry(pr, pos) ==
    LET pk == SkipHigher(pr.iter, pos)
        k == PeekablePeek(pk)
    IN CASE k.item = None -> [result |-> NeverAgain, probe |-> [pr EXCEPT !.iter = k.iter]]
         [] k.item[1] = pos -> [result |-> Match, probe |-> [pr EXCEPT !.iter = k.iter]]
         [] OTHER -> [result |-> NotThisOne, probe |-> [pr EXCEPT !.iter = k.iter]]

IterProbeCall(pr, pos) ==
    LET pk == SkipHigher(pr.iter, pos)
        k == PeekablePeek(pk)
    IN CASE k.item = None -> [result |-> NeverAgain, probe |-> [pr EXCEPT !.iter = k.iter]]
         [] k.item[1] = pos ->
                [result |-> Match,
                 probe |-> [pr EXCEPT !.iter = PeekableNext(k.iter).iter]]
         [] OTHER -> [result |-> NotThisOne, probe |-> [pr EXCEPT !.iter = k.iter]]

\* A probe call: the result and the probe's state after the call.
ProbeCall(pr, pos) ==
    CASE pr.kind = "IterProbe" -> IterProbeCall(pr, pos)
      [] pr.kind = "PureProbe" ->
            [result |-> from_boolean(pos \in pr.truths), probe |-> pr]
      [] OTHER ->
            LET r1 == ProbeCall(pr.p1, pos)
                r2 == ProbeCall(pr.p2, pos)
                pr2 == [pr EXCEPT !.p1 = r1.probe, !.p2 = r2.probe]
            IN CASE pr.kind = "FilterProbe" ->
                        [result |-> and(r1.result, r2.result), probe |-> pr2]
                 [] pr.kind = "UnionProbe" ->
                        [result |-> or(r1.result, r2.result), probe |-> pr2]
                 [] pr.kind = "DifferenceProbe" ->
                        [result |-> and_not(r1.result, r2.result), probe |-> pr2]

predicate_fn_from_iter(it) == [kind |-> "IterProbe", iter |-> Peekable(Fuse(it))]

\* InternalRevset::iter of each set kind.
NewIter(set) ==
    CASE set.kind = "Eager" -> VecIter(set.index_entries)
      [] set.kind = "Walk" -> VecIter(set.walk)
      [] set.kind = "Children" ->
            [kind |-> "ChildrenIter",
             roots |-> CollectPositions(NewIter(set.root_set)),
             candidates |-> NewIter(set.candidate_set)]
      [] set.kind = "Filter" ->
            [kind |-> "FilterIter",
             candidates_iter |-> Fuse(NewIter(set.candidates)),
             predicate |-> NewProbe(set.predicate)]
      [] set.kind = "Union" ->
            [kind |-> "UnionIter",
             iter1 |-> Peekable(NewIter(set.set1)),
             iter2 |-> Peekable(NewIter(set.set2))]
      [] set.kind = "Difference" ->
            [kind |-> "DifferenceIter",
             iter1 |-> Peekable(NewIter(set.set1)),
             iter2 |-> Peekable(NewIter(set.set2))]

\* ToPredicateFn::to_predicate_fn of each set kind and of a pure predicate.
NewProbe(set) ==
    CASE set.kind \in {"Eager", "Walk", "Children"} ->
            predicate_fn_from_iter(NewIter(set))
      [] set.kind = "Pure" -> [kind |-> "PureProbe", truths |-> set.truths]
      [] set.kind = "Filter" ->
            [kind |-> "FilterProbe",
             p1 |-> NewProbe(set.candidates), p2 |-> NewProbe(set.predicate)]
      [] set.kind = "Union" ->
            [kind |-> "UnionProbe",
             p1 |-> NewProbe(set.set1), p2 |-> NewProbe(set.set2)]
      [] set.kind = "Difference" ->
            [kind |-> "DifferenceProbe",
             p1 |-> NewProbe(set.set1), p2 |-> NewProbe(set.set2)]

(***************************************************************************)
(* ObjectId and HexPrefix. An id is a sequence of bytes; a hex string is a  *)
(* sequence of hex digits (0 .. 15).                                        *)
(***************************************************************************)
\* Lexicographic order of byte sequences (Ord of the id types and of [u8]).
BytesLess(a, b) ==
    \E n \in 0 .. Len(a) :
        /\ n <= Len(b)
        /\ \A i \in 1 .. n : a[i] = b[i]
        /\ IF n = Len(a) THEN n < Len(b)
           ELSE n < Len(b) /\ a[n + 1] < b[n + 1]

\* ObjectId::hex: two digits per byte, high digit first.
Hex(bytes) ==
    [i \in 1 .. (2 * Len(bytes)) |->
        IF i % 2 = 1 THEN bytes[(i + 1) \div 2] \div 16
        ELSE bytes[i \div 2] % 16]

\* hex::decode of an even number of digits.
FromHex(digits) ==
    [i \in 1 .. (Len(digits) \div 2) |-> digits[2 * i - 1] * 16 + digits[2 * i]]

\* HexPrefix::new: an odd number of digits is padded with a zero digit.
HexPrefixNew(digits) ==
    IF Len(digits) % 2 = 0
    THEN [min_prefix_bytes |-> FromHex(digits), has_odd_byte |-> FALSE]
    ELSE [min_prefix_bytes |-> FromHex(digits \o <<0>>), has_odd_byte |-> TRUE]

min_prefix_bytes(prefix) == prefix.min_prefix_bytes

\* <[u8]>::starts_with
StartsWith(bytes, head) ==
    /\ Len(head) <= Len(bytes)
    /\ \A i \in 1 .. Len(head) : bytes[i] = head[i]

\* HexPrefix::matches: the whole bytes are a prefix of the id and, for an odd
\* prefix, the high digit of the id's next byte is the odd digit.
matches(prefix, id) ==
    LET n == Len(prefix.min_prefix_bytes)
    IN IF prefix.has_odd_byte
       THEN LET whole == SubSeq(prefix.min_prefix_bytes, 1, n - 1)
                odd == prefix.min_prefix_bytes[n]
            IN /\ StartsWith(id, whole)
               /\ Len(id) >= n
               /\ (id[n] \div 16) * 16 = odd
       ELSE StartsWith(id, prefix.min_prefix_bytes)

(***************************************************************************)
(* IdIndex: a vector of <<key, value>> pairs sorted by key                  *)
(***************************************************************************)
IndexPermutations(n) ==
    {f \in [1 .. n -> 1 .. n] : \A i, j \in 1 .. n : i # j => f[i] # f[j]}

SortedByKey(vec) ==
    \A i, j \in 1 .. Len(vec) : i < j => ~BytesLess(vec[j][1], vec[i][1])

\* The rearrangements of a vector of each length.
Rearrangements == [n \in 0 .. MaxEntries |-> IndexPermutations(n)]

\* Faulty variant of from_vec: the vector is stored as given.
from_vec_unsorted(vec) == {vec}

\* IdIndex::from_vec: sort_unstable_by on the keys. Every arrangement of the
\* entries that is sorted by key is a possible outcome: the order of entries
\* with equal keys is not specified.
from_vec(vec) ==
    {sorted \in {[i \in 1 .. Len(vec) |-> vec[f[i]]] : f \in Rearrangements[Len(vec)]} :
        SortedByKey(sorted)}

\* Faulty variant of partition_point: keys equal to min_bytes are passed over.
partition_point_below_or_equal(vec, min_bytes) ==
    CHOOSE pos \in 0 .. Len(vec) :
        /\ \A i \in 1 .. pos : ~BytesLess(min_bytes, vec[i][1])
        /\ pos < Len(vec) => BytesLess(min_bytes, vec[pos + 1][1])

\* slice::partition_point with |(k, _)| k.as_bytes() < min_bytes: the number
\* of leading entries whose key is below min_bytes.
partition_point(vec, min_bytes) ==
    CHOOSE pos \in 0 .. Len(vec) :
        /\ \A i \in 1 .. pos : BytesLess(vec[i][1], min_bytes)
        /\ pos < Len(vec) => ~BytesLess(vec[pos + 1][1], min_bytes)

RECURSIVE TakeWhileMatches(_, _)
\* Iterator::take_while(|(k, _)| prefix.matches(k))
TakeWhileMatches(entries, prefix) ==
    IF entries = <<>> \/ ~matches(prefix, Head(entries)[1])
    THEN <<>>
    ELSE <<Head(entries)>> \o TakeWhileMatches(Tail(entries), prefix)

\* IdIndex::resolve_prefix_range
resolve_prefix_range(self, prefix) ==
    LET pos == partition_point(self, min_prefix_bytes(prefix))
    IN TakeWhileMatches(SubSeq(self, pos + 1, Len(self)), prefix)

NoMatch == [tag |-> "NoMatch"]
AmbiguousMatch == [tag |-> "AmbiguousMatch"]
SingleMatch(values) == [tag |-> "SingleMatch", values |-> values]

\* The value_mapper handed to resolve_prefix_with.
value_mapper(v) == v

\* The values stored in an index.
StoredValues(self) == {self[i][2] : i \in 1 .. Len(self)}

\* IdIndex::resolve_prefix_with; mapper is the closure, as a function of the
\* stored values.
ResolvePrefixWith(self, prefix, mapper) ==
    LET range == resolve_prefix_range(self, prefix)
    IN IF range = <<>> THEN NoMatch
       ELSE LET first_key == range[1][1]
            IN IF \A i \in 1 .. Len(range) : range[i][1] = first_key
               THEN SingleMatch([i \in 1 .. Len(range) |-> mapper[range[i][2]]])
               ELSE AmbiguousMatch

\* id_index.resolve_prefix_with(prefix, |&v| v)
resolve_prefix_with(self, prefix) ==
    ResolvePrefixWith(self, prefix, [v \in StoredValues(self) |-> value_mapper(v)])

\* backend::common_hex_len: the number of leading hex digits two ids share.
common_hex_len(bytes_a, bytes_b) ==
    LET a == Hex(bytes_a)
        b == Hex(bytes_b)
        shorter == IF Len(a) <= Len(b) THEN Len(a) ELSE Len(b)
    IN Max({n \in 0 .. shorter : \A i \in 1 .. n : a[i] = b[i]})

\* self.0[pos..].iter().find(|(k, _)| k != key)
FindOtherKey(self, pos, key) ==
    LET found == {i \in (pos + 1) .. Len(self) : self[i][1] # key}
    IN IF found = {} THEN None
       ELSE Some(self[CHOOSE i \in found : \A j \in found : i <= j])

\* The lengths the neighbours give: common_hex_len + 1 for each, then max,
\* or 0 without a neighbour.
MaxNeighborLen(key, neighbors) ==
    LET lens == {common_hex_len(key, neighbors[i][1]) + 1 : i \in 1 .. Len(neighbors)}
    IN IF lens = {} THEN 0 ELSE Max(lens)

\* Faulty variant of shortest_unique_prefix_len: the right neighbour is the
\* entry at pos, even when its key is the key asked about.
shortest_unique_prefix_len_first_right(self, key) ==
    LET pos == partition_point(self, key)
        left == IF pos = 0 THEN None ELSE Some(self[pos])
        right == IF pos < Len(self) THEN Some(self[pos + 1]) ELSE None
    IN MaxNeighborLen(key, left \o right)

\* Faulty variant of shortest_unique_prefix_len: only the left neighbour is
\* looked at.
shortest_unique_prefix_len_left_only(self, key) ==
    LET pos == partition_point(self, key)
        left == IF pos = 0 THEN None ELSE Some(self[pos])
    IN MaxNeighborLen(key, left)

\* Faulty variant of shortest_unique_prefix_len: only the right neighbour is
\* looked at.
shortest_unique_prefix_len_right_only(self, key) ==
    LET pos == partition_point(self, key)
        right == FindOtherKey(self, pos, key)
    IN MaxNeighborLen(key, right)

\* IdIndex::shortest_unique_prefix_len: the entry just below the key and the
\* first entry at or above it whose key is another one.
shortest_unique_prefix_len(self, key) ==
    LET pos == partition_point(self, key)
        left == IF pos = 0 THEN None ELSE Some(self[pos])
        right == FindOtherKey(self, pos, key)
    IN MaxNeighborLen(key, left \o right)

(***************************************************************************)
(* The sets under test: every leaf is a strictly descending vector, and the *)
(* set kinds are composed over the leaves up to two levels deep.            *)
(***************************************************************************)
Leaves ==
    {EagerRevset(DescSeq(s)) : s \in SUBSET Positions}
        \cup {RevWalkRevset(DescSeq(s)) : s \in SUBSET Positions}

PurePredicates == {PurePredicateFn(s) : s \in SUBSET Positions}

\* The compositions of one set kind over the given operands.
Compose(lefts, rights) ==
    {ChildrenRevset(a, b) : a \in lefts, b \in rights}
        \cup {FilterRevset(a, b) : a \in lefts, b \in rights}
        \cup {UnionRevset(a, b) : a \in lefts, b \in rights}
        \cup {DifferenceRevset(a, b) : a \in lefts, b \in rights}

Level1 ==
    Compose(Leaves, Leaves)
        \cup {FilterRevset(a, p) : a \in Leaves, p \in PurePredicates}

\* The leaves of the two-level compositions: the NestedCommits highest positions.
NestedPositions == {p \in Positions : p >= NumCommits - NestedCommits}
NestedLeaves == {EagerRevset(DescSeq(s)) : s \in SUBSET NestedPositions}
NestedLevel1 ==
    Compose(NestedLeaves, NestedLeaves)
        \cup {FilterRevset(a, PurePredicateFn(s)) :
                a \in NestedLeaves, s \in SUBSET NestedPositions}

Level2 ==
    Compose(NestedLevel1, NestedLeaves)
        \cup Compose(NestedLeaves, NestedLevel1)
        \cup {UnionRevset(s, s) : s \in NestedLevel1}
        \cup {DifferenceRevset(s, s) : s \in NestedLevel1}

Revsets == Leaves \cup Level1 \cup Level2

\* The commit graphs: every parent has a lower position than its child.
ChainIndex == [p \in Positions |-> IF p = 0 THEN {} ELSE {p - 1}]
MergeIndex == [p \in Positions |-> {q \in Positions : q < p /\ q >= p - 2}]

NoIter == [kind |-> "NoIter"]
NoProbe == [kind |-> "NoProbe"]
NoResolution == [tag |-> "None"]
NoOutcome == [tag |-> "None"]
NoExpression == [kind |-> "NoExpression"]

\* The variables of the operations that a behaviour does not exercise.
NoIdIndex ==
    /\ id_input = <<>>
    /\ id_index = <<>>
    /\ id_prefix = <<>>
    /\ id_result = NoResolution
    /\ id_key = <<>>
    /\ id_len = 0

NoEvaluation ==
    /\ timestamps = <<>>
    /\ change_ids = <<>>
    /\ visible_heads = <<>>
    /\ expression = NoExpression
    /\ inner_result = NoOutcome
    /\ outcome = NoOutcome
    /\ count = 0

NoSecondCursor ==
    /\ cursor2 = NoIter
    /\ emitted2 = <<>>
NoCombination ==
    /\ answers = <<>>
    /\ combined = <<>>

(***************************************************************************)
(* The operations on one set: iter(), next() on the cursor,                 *)
(* to_predicate_fn(), and a call of the probe at an entry.                  *)
(***************************************************************************)
Init ==
    /\ index \in {ChainIndex, MergeIndex}
    /\ revset \in Revsets
    /\ pc = "built"
    /\ cursor = NoIter
    /\ emitted = <<>>
    /\ probe = NoProbe
    /\ probed = <<>>
    /\ NoIdIndex
    /\ NoEvaluation
    /\ NoSecondCursor
    /\ NoCombination

\* let cursor = revset.iter();
Iter ==
    /\ pc = "built"
    /\ cursor' = NewIter(revset)
    /\ pc' = "iterating"
    /\ UNCHANGED <<index, revset, emitted, probe, probed>>
    /\ UNCHANGED <<idVars, evalVars, secondVars, matchVars>>

\* cursor.next()
CursorNext ==
    /\ pc = "iterating"
    /\ LET r == IterNext(cursor)
       IN /\ cursor' = r.iter
          /\ IF r.item = None
             THEN pc' = "drained" /\ emitted' = emitted
             ELSE pc' = pc /\ emitted' = Append(emitted, r.item[1])
    /\ UNCHANGED <<index, revset, probe, probed>>
    /\ UNCHANGED <<idVars, evalVars, secondVars, matchVars>>

\* let probe = revset.to_predicate_fn();
ToPredicateFn ==
    /\ pc = "drained"
    /\ probe' = NewProbe(revset)
    /\ pc' = "probing"
    /\ UNCHANGED <<index, revset, cursor, emitted, probed>>
    /\ UNCHANGED <<idVars, evalVars, secondVars, matchVars>>

\* probe(&entry), at an entry below every entry probed before
ProbeEntry(pos) ==
    /\ pc = "probing"
    /\ probed # <<>> => pos < probed[Len(probed)][1]
    /\ LET r == ProbeCall(probe, pos)
       IN /\ probe' = r.probe
          /\ probed' = Append(probed, <<pos, r.result>>)
    /\ UNCHANGED <<index, revset, pc, cursor, emitted>>
    /\ UNCHANGED <<idVars, evalVars, secondVars, matchVars>>

Next ==
    \/ Iter
    \/ CursorNext
    \/ ToPredicateFn
    \/ \E pos \in Positions : ProbeEntry(pos)

Spec == Init /\ [][Next]_vars

(***************************************************************************)
(* The operations on an IdIndex: from_vec, then prefix lookups.             *)
(***************************************************************************)
\* The bytes the keys are made of: 0x00, 0x0a, 0xa0.
KeyBytes == {0, 10, 160}
Keys == {<<b>> : b \in KeyBytes} \cup {<<b, c>> : b \in KeyBytes, c \in KeyBytes}
Values == {0, 1}
\* The hex digits the looked-up prefixes are made of, and their lengths:
\* up to the hex length of the longest key.
PrefixDigits == {0, 10}
PrefixLengths == 0 .. Max({2 * Len(k) : k \in Keys})
HexStrings == UNION {[1 .. n -> PrefixDigits] : n \in PrefixLengths}

InputVectors == UNION {[1 .. n -> Keys \X Values] : n \in 0 .. MaxEntries}

InitIdIndex ==
    /\ index = ChainIndex
    /\ revset = EagerRevset(<<>>)
    /\ pc = "id_input"
    /\ cursor = NoIter
    /\ emitted = <<>>
    /\ probe = NoProbe
    /\ probed = <<>>
    /\ id_input \in InputVectors
    /\ id_index = <<>>
    /\ id_prefix = <<>>
    /\ id_result = NoResolution
    /\ id_key = <<>>
    /\ id_len = 0
    /\ NoEvaluation
    /\ NoSecondCursor
    /\ NoCombination

\* let id_index = IdIndex::from_vec(vec);  (the vector is moved)
FromVec ==
    /\ pc = "id_input"
    /\ id_index' \in from_vec(id_input)
    /\ id_input' = <<>>
    /\ pc' = "id_built"
    /\ UNCHANGED <<id_prefix, id_result, id_key, id_len>>
    /\ UNCHANGED <<revsetVars, evalVars, secondVars, matchVars>>

\* id_index.resolve_prefix_with(&HexPrefix::new(hex).unwrap(), |&v| v)
\* The lookup takes &self and the index is immutable: one lookup per
\* behaviour reaches every result a sequence of lookups can give.
ResolvePrefix(hex) ==
    /\ pc = "id_built"
    /\ id_prefix' = hex
    /\ id_result' = resolve_prefix_with(id_index, HexPrefixNew(hex))
    /\ pc' = "id_resolved"
    /\ UNCHANGED <<id_input, id_index, id_key, id_len>>
    /\ UNCHANGED <<revsetVars, evalVars, secondVars, matchVars>>

NextIdIndex ==
    \/ FromVec
    \/ \E hex \in HexStrings : ResolvePrefix(hex)

SpecIdIndex == InitIdIndex /\ [][NextIdIndex]_vars

(***************************************************************************)
(* The operations on an IdIndex whose values are (): from_vec, then         *)
(* shortest_unique_prefix_len of a key that is stored or not.               *)
(***************************************************************************)
UnitValues == {0}
KeyVectors == UNION {[1 .. n -> Keys \X UnitValues] : n \in 0 .. MaxEntries}

InitPrefixLen ==
    /\ index = ChainIndex
    /\ revset = EagerRevset(<<>>)
    /\ pc = "id_input"
    /\ cursor = NoIter
    /\ emitted = <<>>
    /\ probe = NoProbe
    /\ probed = <<>>
    /\ id_input \in KeyVectors
    /\ id_index = <<>>
    /\ id_prefix = <<>>
    /\ id_result = NoResolution
    /\ id_key = <<>>
    /\ id_len = 0
    /\ NoEvaluation
    /\ NoSecondCursor
    /\ NoCombination

\* id_index.shortest_unique_prefix_len(&key)
ShortestUniquePrefixLen(key) ==
    /\ pc = "id_built"
    /\ id_key' = key
    /\ id_len' = shortest_unique_prefix_len(id_index, key)
    /\ pc' = "id_measured"
    /\ UNCHANGED <<id_input, id_index, id_prefix, id_result>>
    /\ UNCHANGED <<revsetVars, evalVars, secondVars, matchVars>>

NextPrefixLen ==
    \/ FromVec
    \/ \E key \in Keys : ShortestUniquePrefixLen(key)

SpecPrefixLen == InitPrefixLen /\ [][NextPrefixLen]_vars

(***************************************************************************)
(* shortest_unique_prefix_len of a key, then the lookup of the first m hex  *)
(* digits of that key in the same index.                                    *)
(***************************************************************************)
InitKeyPrefix == InitIdIndex

\* id_index.resolve_prefix_with(&HexPrefix::new(&key.hex()[..m]).unwrap(), |&v| v)
ResolveKeyPrefix(m) ==
    /\ pc = "id_measured"
    /\ m <= 2 * Len(id_key)
    /\ id_prefix' = SubSeq(Hex(id_key), 1, m)
    /\ id_result' = resolve_prefix_with(id_index, HexPrefixNew(SubSeq(Hex(id_key), 1, m)))
    /\ pc' = "id_resolved"
    /\ UNCHANGED <<id_input, id_index, id_key, id_len>>
    /\ UNCHANGED <<revsetVars, evalVars, secondVars, matchVars>>

NextKeyPrefix ==
    \/ FromVec
    \/ \E key \in Keys : ShortestUniquePrefixLen(key)
    \/ \E m \in PrefixLengths \ {0} : ResolveKeyPrefix(m)

SpecKeyPrefix == InitKeyPrefix /\ [][NextKeyPrefix]_vars

(***************************************************************************)
(* What a fresh iterator of a set yields when it is consumed to the first   *)
(* None (Iterator::collect).                                                *)
(***************************************************************************)
RECURSIVE Drain(_)
Drain(it) ==
    LET r == IterNext(it)
    IN IF r.item = None THEN <<>> ELSE <<r.item[1]>> \o Drain(r.iter)

IterAll(set) == Drain(NewIter(set))

(***************************************************************************)
(* RevsetImpl::change_id_index and ChangeIdIndexImpl::resolve_prefix        *)
(***************************************************************************)
\* IndexEntry::change_id, IndexEntry::commit_id, CompositeIndex::entry_by_pos.
\* The commit id of the commit at position p is the byte 0x11 * p three
\* times; an entry is its position.
change_id(entry) == change_ids[entry]
commit_id(entry) == <<17 * entry, 17 * entry, 17 * entry>>
entry_by_pos(pos) == pos

\* Faulty variant of pos_by_change: a pair for every commit of the index.
pos_by_change_of_every_commit(inner) ==
    LET entries == DescSeq(Positions)
    IN [i \in 1 .. Len(entries) |-> <<change_id(entries[i]), entries[i]>>]

\* for entry in self.inner.iter() { pos_by_change.push((change_id, position)) }
pos_by_change(inner) ==
    LET entries == IterAll(inner)
    IN [i \in 1 .. Len(entries) |-> <<change_id(entries[i]), entries[i]>>]

\* RevsetImpl::change_id_index: the outcomes of IdIndex::from_vec.
change_id_index(inner) == from_vec(pos_by_change(inner))

\* The value_mapper of ChangeIdIndexImpl::resolve_prefix.
commit_id_by_pos(pos) == commit_id(entry_by_pos(pos))

\* ChangeIdIndexImpl::resolve_prefix
resolve_prefix(self, prefix) ==
    ResolvePrefixWith(self, prefix,
                      [pos \in StoredValues(self) |-> commit_id_by_pos(pos)])

\* The change ids of the commits: one byte each, shared by several commits
\* or not.
ChangeIds == {<<b>> : b \in KeyBytes}
ChangePrefixes == UNION {[1 .. n -> PrefixDigits] : n \in 0 .. 2}
ChangeIndexRevsets == Leaves \cup NestedLevel1

InitChangeIdIndex ==
    /\ index \in {ChainIndex, MergeIndex}
    /\ revset \in ChangeIndexRevsets
    /\ pc = "built"
    /\ cursor = NoIter
    /\ emitted = <<>>
    /\ probe = NoProbe
    /\ probed = <<>>
    /\ NoIdIndex
    /\ timestamps = <<>>
    /\ change_ids \in [Positions -> ChangeIds]
    /\ visible_heads = <<>>
    /\ expression = NoExpression
    /\ inner_result = NoOutcome
    /\ outcome = NoOutcome
    /\ count = 0
    /\ NoSecondCursor
    /\ NoCombination

\* let change_id_index = revset.change_id_index();
ChangeIdIndex ==
    /\ pc = "built"
    /\ id_index' \in change_id_index(revset)
    /\ pc' = "change_index"
    /\ UNCHANGED <<id_input, id_prefix, id_result, id_key, id_len>>
    /\ UNCHANGED <<revsetVars, evalVars, secondVars, matchVars>>

\* change_id_index.resolve_prefix(&HexPrefix::new(hex).unwrap())
ResolveChangePrefix(hex) ==
    /\ pc = "change_index"
    /\ id_prefix' = hex
    /\ id_result' = resolve_prefix(id_index, HexPrefixNew(hex))
    /\ pc' = "change_resolved"
    /\ UNCHANGED <<id_input, id_index, id_key, id_len>>
    /\ UNCHANGED <<revsetVars, evalVars, secondVars, matchVars>>

NextChangeIdIndex ==
    \/ ChangeIdIndex
    \/ \E hex \in ChangePrefixes : ResolveChangePrefix(hex)

SpecChangeIdIndex == InitChangeIdIndex /\ [][NextChangeIdIndex]_vars

(***************************************************************************)
(* What evaluate returns: Ok(set), Err(error), or a panic that unwinds.     *)
(* An Ok also counts the entries that the compilation took from the         *)
(* iterators of the sets it had built (pulled).                             *)
(***************************************************************************)
Ok(set, pulled) == [tag |-> "Ok", set |-> set, pulled |-> pulled]
Err(error) == [tag |-> "Err", error |-> error]
Panic == [tag |-> "Panic"]

\* RevsetError
NoSuchRevision(name) == [kind |-> "NoSuchRevision", name |-> name]
AmbiguousIdPrefix(prefix) == [kind |-> "AmbiguousIdPrefix", prefix |-> prefix]
StoreError(err) == [kind |-> "StoreError", err |-> err]

(***************************************************************************)
(* take_latest_revset                                                       *)
(***************************************************************************)
\* Item { timestamp, entry }: the committer timestamp of the commit, then the
\* entry, which IndexEntryByPosition orders by position.
make_rev_item(entry) == <<timestamps[entry], entry>>

\* derive(Ord) on Item: by timestamp, ties by position.
ItemLess(a, b) == a[1] < b[1] \/ (a[1] = b[1] /\ a[2] < b[2])

\* Faulty variant of LatestLoop: the remaining candidates are dropped.
LatestLoopKeepFirst(latest_items, remaining) ==
    [panicked |-> FALSE, latest_items |-> latest_items]

\* The earliest item of the heap: the top of the BinaryHeap of Reverse(Item).
Earliest(latest_items) ==
    CHOOSE e \in latest_items : \A x \in latest_items : ~ItemLess(x, e)

\* Faulty variant of ReplaceEarliest: a later item is pushed onto the heap and
\* the earliest item stays.
ReplaceEarliestPushing(latest_items, earliest, item) ==
    IF ItemLess(earliest, item)
    THEN latest_items \cup {item}
    ELSE latest_items

\* if earliest.0 < item.0 { *earliest = item; }
ReplaceEarliest(latest_items, earliest, item) ==
    IF ItemLess(earliest, item)
    THEN (latest_items \ {earliest}) \cup {item}
    ELSE latest_items

RECURSIVE LatestLoop(_, _)
\* for item in candidate_iter: the heap's top is the earliest item kept
\* (peek_mut().unwrap() panics on an empty heap); a later item replaces it.
\* remaining: the entries candidate_iter still yields.
LatestLoop(latest_items, remaining) ==
    IF remaining = <<>> THEN [panicked |-> FALSE, latest_items |-> latest_items]
    ELSE IF latest_items = {} THEN [panicked |-> TRUE, latest_items |-> {}]
    ELSE LatestLoop(ReplaceEarliest(latest_items, Earliest(latest_items),
                                    make_rev_item(Head(remaining))),
                    Tail(remaining))

\* assert!(latest_items.len() <= count), then the entries of the heap sorted
\* by descending position.
LatestEntries(looped, k, pulled) ==
    IF looped.panicked \/ Cardinality(looped.latest_items) > k
    THEN Panic
    ELSE Ok(EagerRevset(DescSeq({item[2] : item \in looped.latest_items})), pulled)

\* The body of take_latest_revset for count > 0, on the entries that the fused
\* candidate_iter yields: BinaryHeap::from_iter(candidate_iter.by_ref()
\* .take(count)), then the loop over the rest. The heap is modelled by the
\* set of its items (the positions of the candidates are distinct).
LatestOf(candidates, k) ==
    LatestEntries(
        LatestLoop({make_rev_item(candidates[i]) :
                        i \in 1 .. (IF k < Len(candidates) THEN k ELSE Len(candidates))},
                   SubSeq(candidates, k + 1, Len(candidates))),
        k, Len(candidates))

\* EvaluationContext::take_latest_revset
take_latest_revset(candidate_set, k) ==
    IF k = 0 THEN Ok(EagerRevset(<<>>), 0)
    ELSE LatestOf(IterAll(candidate_set), k)

(***************************************************************************)
(* take_latest_revset on a candidate set, with the committer timestamps of  *)
(* the commits in the store.                                                *)
(***************************************************************************)
Timestamps == {0, 1}
Counts == 0 .. (NumCommits + 1)
LatestCandidates == Leaves \cup NestedLevel1

InitLatest ==
    /\ index \in {ChainIndex, MergeIndex}
    /\ revset \in LatestCandidates
    /\ pc = "candidates"
    /\ cursor = NoIter
    /\ emitted = <<>>
    /\ probe = NoProbe
    /\ probed = <<>>
    /\ NoIdIndex
    /\ timestamps \in [Positions -> Timestamps]
    /\ change_ids = <<>>
    /\ visible_heads = <<>>
    /\ expression = NoExpression
    /\ inner_result = NoOutcome
    /\ outcome = NoOutcome
    /\ count = 0
    /\ NoSecondCursor
    /\ NoCombination

\* self.take_latest_revset(candidate_set.as_ref(), k)
TakeLatest(k) ==
    /\ pc = "candidates"
    /\ count' = k
    /\ outcome' = take_latest_revset(revset, k)
    /\ pc' = "latest"
    /\ UNCHANGED <<timestamps, change_ids, visible_heads, expression,
                   inner_result>>
    /\ UNCHANGED <<revsetVars, idVars, secondVars, matchVars>>

NextLatest == \E k \in Counts : TakeLatest(k)

SpecLatest == InitLatest /\ [][NextLatest]_vars

(***************************************************************************)
(* RevsetExpression and RevsetFilterPredicate                               *)
(***************************************************************************)
UnresolvedKinds ==
    {"Symbol", "Branches", "RemoteBranches", "Tags", "GitRefs", "GitHead"}
Unresolved(kind) == [kind |-> kind]
ExprNone == [kind |-> "None"]
All == [kind |-> "All"]
Commits(commit_ids) == [kind |-> "Commits", commit_ids |-> commit_ids]
Children(roots) == [kind |-> "Children", roots |-> roots]
Ancestors(heads, generation) ==
    [kind |-> "Ancestors", heads |-> heads, generation |-> generation]
Range(roots, heads, generation) ==
    [kind |-> "Range", roots |-> roots, heads |-> heads, generation |-> generation]
DagRange(roots, heads) == [kind |-> "DagRange", roots |-> roots, heads |-> heads]
VisibleHeads == [kind |-> "VisibleHeads"]
Heads(candidates) == [kind |-> "Heads", candidates |-> candidates]
Roots(candidates) == [kind |-> "Roots", candidates |-> candidates]
Latest(candidates, k) == [kind |-> "Latest", candidates |-> candidates, count |-> k]
Filter(predicate) == [kind |-> "Filter", predicate |-> predicate]
AsFilter(candidates) == [kind |-> "AsFilter", candidates |-> candidates]
Present(candidates) == [kind |-> "Present", candidates |-> candidates]
NotIn(complement) == [kind |-> "NotIn", complement |-> complement]
Union(expression1, expression2) ==
    [kind |-> "Union", expression1 |-> expression1, expression2 |-> expression2]
Intersection(expression1, expression2) ==
    [kind |-> "Intersection", expression1 |-> expression1, expression2 |-> expression2]
Difference(expression1, expression2) ==
    [kind |-> "Difference", expression1 |-> expression1, expression2 |-> expression2]

\* RevsetFilterPredicate::ParentCount(start .. end)
ParentCount(start, end) == [kind |-> "ParentCount", start |-> start, end |-> end]

\* A generation range start .. end (end excluded). The full range is
\* 0 .. u32::MAX; no walk of the model is that deep.
GenerationRange(start, end) == [start |-> start, end |-> end]
GENERATION_RANGE_FULL == GenerationRange(0, 2147483647)

\* RevsetExpression::ancestors, descendants, connected
ancestors(heads) == Ancestors(heads, GENERATION_RANGE_FULL)
descendants(roots) == DagRange(roots, VisibleHeads)
connected(candidates) == DagRange(candidates, candidates)

(***************************************************************************)
(* The commit index as evaluate uses it                                     *)
(***************************************************************************)
\* CompositeIndex::entry_by_id(id).unwrap(), for the id of a commit in the index
entry_by_id(id) == CHOOSE p \in Positions : commit_id(p) = id

num_parents(entry) == Cardinality(parent_positions(entry))

RECURSIVE AncestorsOf(_)
\* The positions in S and all their ancestors (parents have lower positions).
AncestorsOf(S) ==
    IF S = {} THEN {}
    ELSE LET m == Max(S)
         IN {m} \cup AncestorsOf((S \ {m}) \cup parent_positions(m))

\* CompositeIndex::walk_revs(heads, roots): the ancestors of the heads that are
\* not ancestors of the roots, in descending position.
walk_revs(head_ids, root_ids) ==
    LET wanted == {entry_by_id(head_ids[i]) : i \in 1 .. Len(head_ids)}
        unwanted == {entry_by_id(root_ids[i]) : i \in 1 .. Len(root_ids)}
    IN DescSeq(AncestorsOf(wanted) \ AncestorsOf(unwanted))

RECURSIVE AtGeneration(_, _)
\* The commits g parent edges away from the heads.
AtGeneration(S, g) ==
    IF g = 0 THEN S
    ELSE UNION {parent_positions(p) : p \in AtGeneration(S, g - 1)}

\* RevWalk::filter_by_generation: the entries of the walk that are at a
\* generation of the range, counted from the heads of the walk.
filter_by_generation(walk, head_ids, generation) ==
    LET wanted == {entry_by_id(head_ids[i]) : i \in 1 .. Len(head_ids)}
        depths == {g \in 0 .. NumCommits : generation.start <= g /\ g < generation.end}
    IN SelectSeq(walk, LAMBDA p : \E g \in depths : p \in AtGeneration(wanted, g))

\* CompositeIndex::heads: the ids that are not a proper ancestor of another.
heads(candidate_ids) ==
    LET given == {entry_by_id(candidate_ids[i]) : i \in 1 .. Len(candidate_ids)}
        tips == {p \in given : \A q \in given \ {p} : p \notin AncestorsOf({q})}
        ordered == DescSeq(tips)
    IN [i \in 1 .. Len(ordered) |-> commit_id(ordered[i])]

\* set.iter().map(|entry| entry.commit_id()).collect_vec()
CollectCommitIds(set) ==
    LET entries == IterAll(set)
    IN [i \in 1 .. Len(entries) |-> commit_id(entries[i])]

(***************************************************************************)
(* EvaluationContext::revset_for_commit_ids                                 *)
(***************************************************************************)
RECURSIVE SortDescending(_)
\* sort_unstable_by_key(|b| Reverse(b.position()))
SortDescending(entries) ==
    IF entries = <<>> THEN <<>>
    ELSE LET m == Max(SeqToSet(entries))
         IN SelectSeq(entries, LAMBDA x : x = m)
                \o SortDescending(SelectSeq(entries, LAMBDA x : x # m))

\* Faulty variant of Dedup: no entry is removed.
DedupNothing(entries) == entries

RECURSIVE Dedup(_)
\* Vec::dedup: consecutive equal entries are reduced to the first.
Dedup(entries) ==
    IF Len(entries) <= 1 THEN entries
    ELSE IF entries[1] = entries[2] THEN Dedup(Tail(entries))
    ELSE <<entries[1]>> \o Dedup(Tail(entries))

revset_for_commit_ids(commit_ids) ==
    LET index_entries == [i \in 1 .. Len(commit_ids) |-> entry_by_id(commit_ids[i])]
    IN EagerRevset(Dedup(SortDescending(index_entries)))

(***************************************************************************)
(* EvaluationContext::evaluate                                              *)
(***************************************************************************)
\* build_predicate_fn, for ParentCount: true at the entries whose number of
\* parents is in the range.
build_predicate_fn(predicate) ==
    PurePredicateFn({p \in Positions :
        predicate.start <= num_parents(p) /\ num_parents(p) < predicate.end})

Reverse(seq) == [i \in 1 .. Len(seq) |-> seq[Len(seq) + 1 - i]]

\* Faulty variant of DagRangeLoop: a candidate is reachable only when it is a root.
DagRangeLoopRootsOnly(candidates, reachable, result) ==
    SelectSeq(candidates, LAMBDA candidate : candidate \in reachable)

RECURSIVE DagRangeLoop(_, _, _)
\* for candidate in candidates.into_iter().rev(): a candidate is reachable
\* when it is a root or a parent of it is reachable.
DagRangeLoop(candidates, reachable, result) ==
    IF candidates = <<>> THEN result
    ELSE LET candidate == Head(candidates)
         IN IF \/ candidate \in reachable
               \/ parent_positions(candidate) \cap reachable # {}
            THEN DagRangeLoop(Tail(candidates), reachable \cup {candidate},
                              Append(result, candidate))
            ELSE DagRangeLoop(Tail(candidates), reachable, result)

\* Faulty variant of the Present arm: a panic is turned into the empty set.
present_catching_panic(result) ==
    IF result.tag = "Ok" THEN result ELSE Ok(EagerRevset(<<>>), 0)

\* Faulty variant of the Present arm: every error is turned into the empty set.
present_swallowing_errors(result) ==
    CASE result.tag = "Ok" -> result
      [] result.tag = "Err" -> Ok(EagerRevset(<<>>), 0)
      [] OTHER -> result

\* The match of the Present arm on the result of evaluating its operand. A
\* panic is not a result: it unwinds through the match.
present(result) ==
    CASE result.tag = "Ok" -> result
      [] result.tag = "Err" /\ result.error.kind = "NoSuchRevision" ->
            Ok(EagerRevset(<<>>), 0)
      [] result.tag = "Err"
            /\ result.error.kind \in {"AmbiguousIdPrefix", "StoreError"} -> result
      [] OTHER -> result

\* Faulty variant of all_expansion: every commit of the index.
all_expansion_every_commit ==
    Commits([i \in 1 .. NumCommits |-> commit_id(NumCommits - i)])

\* What the All arm evaluates instead: visible_heads().ancestors()
all_expansion == ancestors(VisibleHeads)

\* The arms of evaluate, given what the evaluation of the operands returned.
\* The ? operator returns the first result that is not Ok.
children_arm(root_set, candidate_set) ==
    IF root_set.tag # "Ok" THEN root_set
    ELSE IF candidate_set.tag # "Ok" THEN candidate_set
    ELSE Ok(ChildrenRevset(root_set.set, candidate_set.set),
            root_set.pulled + candidate_set.pulled)

\* The walk of the Range arm, on the ids collected from the two operand sets.
range_walk(root_ids, head_ids, generation, pulled) ==
    LET walk == walk_revs(head_ids, root_ids)
    IN IF generation = GENERATION_RANGE_FULL
       THEN Ok(RevWalkRevset(walk), pulled + Len(root_ids) + Len(head_ids))
       ELSE Ok(RevWalkRevset(filter_by_generation(walk, head_ids, generation)),
               pulled + Len(root_ids) + Len(head_ids))

range_arm(root_set, head_set, generation) ==
    IF root_set.tag # "Ok" THEN root_set
    ELSE IF head_set.tag # "Ok" THEN head_set
    ELSE range_walk(CollectCommitIds(root_set.set), CollectCommitIds(head_set.set),
                    generation, root_set.pulled + head_set.pulled)

\* The loop of the DagRange arm, on the entries collected from the two sets:
\* result.reverse() puts the reachable candidates in descending position.
dag_range_reachable(roots, candidates, pulled) ==
    Ok(EagerRevset(Reverse(DagRangeLoop(Reverse(candidates), SeqToSet(roots), <<>>))),
       pulled + Len(roots) + Len(candidates))

dag_range_arm(root_set, candidate_set) ==
    IF root_set.tag # "Ok" THEN root_set
    ELSE IF candidate_set.tag # "Ok" THEN candidate_set
    ELSE dag_range_reachable(IterAll(root_set.set), IterAll(candidate_set.set),
                             root_set.pulled + candidate_set.pulled)

\* self.revset_for_commit_ids(&self.index.heads(&mut candidate_ids.iter()))
heads_of(candidate_ids, pulled) ==
    Ok(revset_for_commit_ids(heads(candidate_ids)), pulled + Len(candidate_ids))

heads_arm(candidate_set) ==
    IF candidate_set.tag # "Ok" THEN candidate_set
    ELSE heads_of(CollectCommitIds(candidate_set.set), candidate_set.pulled)

\* Faulty variant of roots_of: the parents are looked up among the candidates.
roots_among_candidates(filled, candidates, pulled) ==
    Ok(EagerRevset(SelectSeq(candidates,
            LAMBDA c : parent_positions(c) \cap SeqToSet(candidates) = {})),
       pulled + Len(filled) + Len(candidates))

\* The loop of the Roots arm: the candidates without a parent in the filled
\* (connected) set, in the order of the candidates.
roots_of(filled, candidates, pulled) ==
    Ok(EagerRevset(SelectSeq(candidates,
            LAMBDA c : parent_positions(c) \cap SeqToSet(filled) = {})),
       pulled + Len(filled) + Len(candidates))

roots_arm(connected_set, candidate_set) ==
    IF connected_set.tag # "Ok" THEN connected_set
    ELSE IF candidate_set.tag # "Ok" THEN candidate_set
    ELSE roots_of(IterAll(connected_set.set), IterAll(candidate_set.set),
                  connected_set.pulled + candidate_set.pulled)

\* Ok(self.take_latest_revset(candidate_set.as_ref(), *count))
latest_taken(latest, pulled) ==
    IF latest.tag # "Ok" THEN latest ELSE Ok(latest.set, pulled + latest.pulled)

latest_arm(candidate_set, k) ==
    IF candidate_set.tag # "Ok" THEN candidate_set
    ELSE latest_taken(take_latest_revset(candidate_set.set, k), candidate_set.pulled)

filter_arm(candidates, predicate) ==
    IF candidates.tag # "Ok" THEN candidates
    ELSE Ok(FilterRevset(candidates.set, build_predicate_fn(predicate)),
            candidates.pulled)

union_arm(set1, set2) ==
    IF set1.tag # "Ok" THEN set1
    ELSE IF set2.tag # "Ok" THEN set2
    ELSE Ok(UnionRevset(set1.set, set2.set), set1.pulled + set2.pulled)

intersection_arm(candidates, predicate) ==
    IF candidates.tag # "Ok" THEN candidates
    ELSE IF predicate.tag # "Ok" THEN predicate
    ELSE Ok(FilterRevset(candidates.set, predicate.set),
            candidates.pulled + predicate.pulled)

difference_arm(set1, set2) ==
    IF set1.tag # "Ok" THEN set1
    ELSE IF set2.tag # "Ok" THEN set2
    ELSE Ok(DifferenceRevset(set1.set, set2.set), set1.pulled + set2.pulled)

RECURSIVE evaluate(_)
\* EvaluationContext::evaluate
evaluate(expr) ==
    CASE expr.kind \in UnresolvedKinds -> Panic
      [] expr.kind = "None" -> Ok(EagerRevset(<<>>), 0)
      [] expr.kind = "All" -> evaluate(all_expansion)
      [] expr.kind = "Commits" -> Ok(revset_for_commit_ids(expr.commit_ids), 0)
      [] expr.kind = "Children" ->
            children_arm(evaluate(expr.roots), evaluate(descendants(expr.roots)))
      [] expr.kind = "Ancestors" ->
            evaluate(Range(ExprNone, expr.heads, expr.generation))
      [] expr.kind = "Range" ->
            range_arm(evaluate(expr.roots), evaluate(expr.heads), expr.generation)
      [] expr.kind = "DagRange" ->
            dag_range_arm(evaluate(expr.roots), evaluate(ancestors(expr.heads)))
      [] expr.kind = "VisibleHeads" -> Ok(revset_for_commit_ids(visible_heads), 0)
      [] expr.kind = "Heads" -> heads_arm(evaluate(expr.candidates))
      [] expr.kind = "Roots" ->
            roots_arm(evaluate(connected(expr.candidates)), evaluate(expr.candidates))
      [] expr.kind = "Latest" -> latest_arm(evaluate(expr.candidates), expr.count)
      [] expr.kind = "Filter" -> filter_arm(evaluate(All), expr.predicate)
      [] expr.kind = "AsFilter" -> evaluate(expr.candidates)
      [] expr.kind = "Present" -> present(evaluate(expr.candidates))
      [] expr.kind = "NotIn" ->
            difference_arm(evaluate(All), evaluate(expr.complement))
      [] expr.kind = "Union" ->
            union_arm(evaluate(expr.expression1), evaluate(expr.expression2))
      [] expr.kind = "Intersection" ->
            intersection_arm(evaluate(expr.expression1), evaluate(expr.expression2))
      [] expr.kind = "Difference" ->
            difference_arm(evaluate(expr.expression1), evaluate(expr.expression2))

(***************************************************************************)
(* The Present arm on every result its operand can be declared to return.   *)
(***************************************************************************)
RevsetErrors ==
    {NoSuchRevision(name) : name \in {"foo", "bar"}}
        \cup {AmbiguousIdPrefix(prefix) : prefix \in {"0", "0a"}}
        \cup {StoreError(err) : err \in {"NotFound", "Other"}}
OperandResults ==
    {Ok(set, 0) : set \in Leaves \cup Level1} \cup {Err(error) : error \in RevsetErrors}

InitPresent ==
    /\ index \in {ChainIndex, MergeIndex}
    /\ revset = EagerRevset(<<>>)
    /\ pc = "operand_evaluated"
    /\ cursor = NoIter
    /\ emitted = <<>>
    /\ probe = NoProbe
    /\ probed = <<>>
    /\ NoIdIndex
    /\ timestamps = <<>>
    /\ change_ids = <<>>
    /\ visible_heads = <<>>
    /\ expression = NoExpression
    /\ inner_result \in OperandResults
    /\ outcome = NoOutcome
    /\ count = 0
    /\ NoSecondCursor
    /\ NoCombination

\* match self.evaluate(candidates) { ... }, given what the operand returned
PresentMatch ==
    /\ pc = "operand_evaluated"
    /\ outcome' = present(inner_result)
    /\ pc' = "present_done"
    /\ UNCHANGED <<timestamps, change_ids, visible_heads, expression,
                   inner_result, count>>
    /\ UNCHANGED <<revsetVars, idVars, secondVars, matchVars>>

NextPresent == PresentMatch

SpecPresent == InitPresent /\ [][NextPresent]_vars

(***************************************************************************)
(* evaluate on an expression, then iter() and next() on the set it built.   *)
(***************************************************************************)
CommitIds == {commit_id(p) : p \in Positions}
CommitIdLists == UNION {[1 .. n -> CommitIds] : n \in 0 .. 2}
DescendingIdLists ==
    {[i \in 1 .. Len(DescSeq(s)) |-> commit_id(DescSeq(s)[i])] : s \in SUBSET Positions}

ExprLeaves ==
    {ExprNone, All, VisibleHeads}
        \cup {Commits(ids) : ids \in CommitIdLists \cup DescendingIdLists}
        \cup {Unresolved(kind) : kind \in UnresolvedKinds}
ExprOperands ==
    {ExprNone, All, VisibleHeads, Unresolved("Symbol")}
        \cup {Commits(ids) : ids \in DescendingIdLists}

ExprUnary(operands) ==
    {Children(e) : e \in operands}
        \cup {Ancestors(e, g) : e \in operands,
                g \in {GENERATION_RANGE_FULL, GenerationRange(1, 2)}}
        \cup {Heads(e) : e \in operands}
        \cup {Roots(e) : e \in operands}
        \cup {Latest(e, k) : e \in operands, k \in 0 .. 2}
        \cup {AsFilter(e) : e \in operands}
        \cup {Present(e) : e \in operands}
        \cup {NotIn(e) : e \in operands}
ExprBinary(lefts, rights) ==
    {Range(a, b, GENERATION_RANGE_FULL) : a \in lefts, b \in rights}
        \cup {DagRange(a, b) : a \in lefts, b \in rights}
        \cup {Union(a, b) : a \in lefts, b \in rights}
        \cup {Intersection(a, b) : a \in lefts, b \in rights}
        \cup {Difference(a, b) : a \in lefts, b \in rights}
ExprFilters == {Filter(ParentCount(n, n + 1)) : n \in 0 .. 2}

ExprLevel1 ==
    ExprUnary(ExprLeaves) \cup ExprBinary(ExprOperands, ExprOperands) \cup ExprFilters
\* Compositions one level deeper, over the operands built from ExprNone,
\* VisibleHeads, a Symbol and the commit at the highest position.
ExprNestedOperands ==
    {ExprNone, VisibleHeads, Unresolved("Symbol"),
     Commits(<<commit_id(NumCommits - 1)>>)}
ExprNested ==
    ExprUnary(ExprUnary(ExprNestedOperands))
        \cup ExprUnary(ExprBinary(ExprNestedOperands, ExprNestedOperands))
Expressions == ExprLeaves \cup ExprLevel1 \cup ExprNested

\* The committer timestamps of the commits in the store.
CommitTimestamps == [p \in Positions |-> (NumCommits - p) % 2]

InitEvaluate ==
    /\ index \in {ChainIndex, MergeIndex}
    /\ revset = EagerRevset(<<>>)
    /\ pc = "expression"
    /\ cursor = NoIter
    /\ emitted = <<>>
    /\ probe = NoProbe
    /\ probed = <<>>
    /\ NoIdIndex
    /\ timestamps = CommitTimestamps
    /\ change_ids = <<>>
    /\ visible_heads \in DescendingIdLists
    /\ expression \in Expressions
    /\ inner_result = NoOutcome
    /\ outcome = NoOutcome
    /\ count = 0
    /\ NoSecondCursor
    /\ NoCombination

\* let revset = evaluate(&expression, ..)  (a panic ends the behaviour)
Evaluate ==
    /\ pc = "expression"
    /\ outcome' = evaluate(expression)
    /\ IF outcome'.tag = "Ok"
       THEN pc' = "built" /\ revset' = outcome'.set
       ELSE pc' = "failed" /\ revset' = revset
    /\ UNCHANGED <<index, cursor, emitted, probe, probed>>
    /\ UNCHANGED <<timestamps, change_ids, visible_heads, expression,
                   inner_result, count>>
    /\ UNCHANGED <<idVars, secondVars, matchVars>>

NextEvaluate ==
    \/ Evaluate
    \/ Iter
    \/ CursorNext

SpecEvaluate == InitEvaluate /\ [][NextEvaluate]_vars

(***************************************************************************)
(* Two cursors and a probe of one set, advanced in any interleaving.        *)
(***************************************************************************)
\* The cursor after next() has returned None and the caller has dropped it.
Dropped == [kind |-> "Dropped"]

InitCursors ==
    /\ index \in {ChainIndex, MergeIndex}
    /\ revset \in Leaves \cup NestedLevel1
    /\ pc = "cursors"
    /\ cursor = NoIter
    /\ emitted = <<>>
    /\ probe = NoProbe
    /\ probed = <<>>
    /\ NoIdIndex
    /\ NoEvaluation
    /\ NoSecondCursor
    /\ NoCombination

\* let cursor = revset.iter();
IterFirst ==
    /\ pc = "cursors"
    /\ cursor = NoIter
    /\ cursor' = NewIter(revset)
    /\ UNCHANGED <<index, revset, pc, emitted, probe, probed>>
    /\ UNCHANGED <<idVars, evalVars, secondVars, matchVars>>

\* Faulty variant of IterSecond: the second cursor shares the state of the first.
IterSecondSharingCursor ==
    /\ pc = "cursors"
    /\ cursor2 = NoIter
    /\ cursor2' = CASE cursor = NoIter -> NewIter(revset)
                     [] cursor = Dropped -> VecIter(<<>>)
                     [] OTHER -> cursor
    /\ UNCHANGED <<pc, emitted2>>
    /\ UNCHANGED <<revsetVars, idVars, evalVars, matchVars>>

\* let cursor2 = revset.iter();  (a later call of iter() on the same set)
IterSecond ==
    /\ pc = "cursors"
    /\ cursor2 = NoIter
    /\ cursor2' = NewIter(revset)
    /\ UNCHANGED <<pc, emitted2>>
    /\ UNCHANGED <<revsetVars, idVars, evalVars, matchVars>>

\* cursor.next()
NextFirst ==
    /\ pc = "cursors"
    /\ cursor \notin {NoIter, Dropped}
    /\ LET r == IterNext(cursor)
       IN IF r.item = None
          THEN cursor' = Dropped /\ emitted' = emitted
          ELSE cursor' = r.iter /\ emitted' = Append(emitted, r.item[1])
    /\ UNCHANGED <<index, revset, pc, probe, probed>>
    /\ UNCHANGED <<idVars, evalVars, secondVars, matchVars>>

\* cursor2.next()
NextSecond ==
    /\ pc = "cursors"
    /\ cursor2 \notin {NoIter, Dropped}
    /\ LET r == IterNext(cursor2)
       IN IF r.item = None
          THEN cursor2' = Dropped /\ emitted2' = emitted2
          ELSE cursor2' = r.iter /\ emitted2' = Append(emitted2, r.item[1])
    /\ UNCHANGED pc
    /\ UNCHANGED <<revsetVars, idVars, evalVars, matchVars>>

\* let probe = revset.to_predicate_fn();
ToPredicateFnBeside ==
    /\ pc = "cursors"
    /\ probe = NoProbe
    /\ probe' = NewProbe(revset)
    /\ UNCHANGED <<index, revset, pc, cursor, emitted, probed>>
    /\ UNCHANGED <<idVars, evalVars, secondVars, matchVars>>

\* probe(&entry), at an entry below every entry probed before
ProbeBeside(pos) ==
    /\ pc = "cursors"
    /\ probe # NoProbe
    /\ probed # <<>> => pos < probed[Len(probed)][1]
    /\ LET r == ProbeCall(probe, pos)
       IN /\ probe' = r.probe
          /\ probed' = Append(probed, <<pos, r.result>>)
    /\ UNCHANGED <<index, revset, pc, cursor, emitted>>
    /\ UNCHANGED <<idVars, evalVars, secondVars, matchVars>>

NextCursors ==
    \/ IterFirst
    \/ IterSecond
    \/ NextFirst
    \/ NextSecond
    \/ ToPredicateFnBeside
    \/ \E pos \in Positions : ProbeBeside(pos)

SpecCursors == InitCursors /\ [][NextCursors]_vars

(***************************************************************************)
(* The cursor of a Filter set, called again after it has returned None.     *)
(***************************************************************************)
FilterRevsets == {set \in Revsets : set.kind = "Filter"}

InitExhausted ==
    /\ index \in {ChainIndex, MergeIndex}
    /\ revset \in FilterRevsets
    /\ pc = "built"
    /\ cursor = NoIter
    /\ emitted = <<>>
    /\ probe = NoProbe
    /\ probed = <<>>
    /\ NoIdIndex
    /\ NoEvaluation
    /\ NoSecondCursor
    /\ NoCombination

\* cursor.next(), after a call that returned None
CursorNextAfterNone ==
    /\ pc = "drained"
    /\ LET r == IterNext(cursor)
       IN /\ cursor' = r.iter
          /\ emitted' = IF r.item = None THEN emitted ELSE Append(emitted, r.item[1])
    /\ UNCHANGED <<index, revset, pc, probe, probed>>
    /\ UNCHANGED <<idVars, evalVars, secondVars, matchVars>>

NextExhausted ==
    \/ Iter
    \/ CursorNext
    \/ CursorNextAfterNone

SpecExhausted == InitExhausted /\ [][NextExhausted]_vars

(***************************************************************************)
(* A probe called on non-increasing positions: a position may be repeated.  *)
(***************************************************************************)
InitRepeat ==
    /\ index \in {ChainIndex, MergeIndex}
    /\ revset \in Leaves \cup NestedLevel1
    /\ pc = "built"
    /\ cursor = NoIter
    /\ emitted = <<>>
    /\ probe = NoProbe
    /\ probed = <<>>
    /\ NoIdIndex
    /\ NoEvaluation
    /\ NoSecondCursor
    /\ NoCombination

\* let probe = revset.to_predicate_fn();
ToPredicateFnRepeat ==
    /\ pc = "built"
    /\ probe' = NewProbe(revset)
    /\ pc' = "repeating"
    /\ UNCHANGED <<index, revset, cursor, emitted, probed>>
    /\ UNCHANGED <<idVars, evalVars, secondVars, matchVars>>

\* The number of calls made at the position of the last call.
CallsAtLast ==
    Cardinality({i \in 1 .. Len(probed) : probed[i][1] = probed[Len(probed)][1]})

\* probe(&entry), at an entry not above the entry probed before
ProbeAgain(pos) ==
    /\ pc = "repeating"
    /\ probed # <<>> =>
          \/ pos < probed[Len(probed)][1]
          \/ pos = probed[Len(probed)][1] /\ CallsAtLast < MaxCalls
    /\ LET r == ProbeCall(probe, pos)
       IN /\ probe' = r.probe
          /\ probed' = Append(probed, <<pos, r.result>>)
    /\ UNCHANGED <<index, revset, pc, cursor, emitted>>
    /\ UNCHANGED <<idVars, evalVars, secondVars, matchVars>>

NextRepeat ==
    \/ ToPredicateFnRepeat
    \/ \E pos \in Positions : ProbeAgain(pos)

SpecRepeat == InitRepeat /\ [][NextRepeat]_vars

(***************************************************************************)
(* PredicateMatch::and, or, and_not on the answers of probes at one entry:  *)
(* the first two answers are combined, then the result with the next one,   *)
(* as the probes of nested sets do.                                         *)
(***************************************************************************)
InitPredicateMatch ==
    /\ index = ChainIndex
    /\ revset = EagerRevset(<<>>)
    /\ pc = "answers"
    /\ cursor = NoIter
    /\ emitted = <<>>
    /\ probe = NoProbe
    /\ probed = <<>>
    /\ NoIdIndex
    /\ NoEvaluation
    /\ NoSecondCursor
    /\ answers \in [1 .. MaxAnswers -> PredicateMatch]
    /\ combined = <<>>

\* The receiver of the next call: the first answer, then the last result.
Receiver == IF combined = <<>> THEN answers[1] ELSE combined[Len(combined)].result
Argument == answers[Len(combined) + 2]

\* self.and(other)
And ==
    /\ pc = "answers"
    /\ Len(combined) + 2 <= Len(answers)
    /\ combined' = Append(combined, [method |-> "and", self |-> Receiver,
                                     other |-> Argument,
                                     result |-> and(Receiver, Argument)])
    /\ UNCHANGED <<pc, answers>>
    /\ UNCHANGED <<revsetVars, idVars, evalVars, secondVars>>

\* self.or(other)
Or ==
    /\ pc = "answers"
    /\ Len(combined) + 2 <= Len(answers)
    /\ combined' = Append(combined, [method |-> "or", self |-> Receiver,
                                     other |-> Argument,
                                     result |-> or(Receiver, Argument)])
    /\ UNCHANGED <<pc, answers>>
    /\ UNCHANGED <<revsetVars, idVars, evalVars, secondVars>>

\* self.and_not(other)
AndNot ==
    /\ pc = "answers"
    /\ Len(combined) + 2 <= Len(answers)
    /\ combined' = Append(combined, [method |-> "and_not", self |-> Receiver,
                                     other |-> Argument,
                                     result |-> and_not(Receiver, Argument)])
    /\ UNCHANGED <<pc, answers>>
    /\ UNCHANGED <<revsetVars, idVars, evalVars, secondVars>>

NextPredicateMatch ==
    \/ And
    \/ Or
    \/ AndNot

SpecPredicateMatch == InitPredicateMatch /\ [][NextPredicateMatch]_vars

(***************************************************************************)
(* evaluate on Commits(ids) and on VisibleHeads, for lists of commit ids in *)
(* any order and with repetitions, then iter() and next().                  *)
(***************************************************************************)
IdLists == UNION {[1 .. n -> CommitIds] : n \in 0 .. MaxIds}

InitCommits ==
    /\ index \in {ChainIndex, MergeIndex}
    /\ revset = EagerRevset(<<>>)
    /\ pc = "expression"
    /\ cursor = NoIter
    /\ emitted = <<>>
    /\ probe = NoProbe
    /\ probed = <<>>
    /\ NoIdIndex
    /\ timestamps = CommitTimestamps
    /\ change_ids = <<>>
    /\ \/ expression = VisibleHeads /\ visible_heads \in IdLists
       \/ expression \in {Commits(ids) : ids \in IdLists} /\ visible_heads = <<>>
    /\ inner_result = NoOutcome
    /\ outcome = NoOutcome
    /\ count = 0
    /\ NoSecondCursor
    /\ NoCombination

SpecCommits == InitCommits /\ [][NextEvaluate]_vars

(***************************************************************************)
(* evaluate on DagRange and Roots over every commit graph in which a parent *)
(* has a lower position than its child, then iter() and next().             *)
(***************************************************************************)
Graphs ==
    {g \in [Positions -> SUBSET Positions] :
        \A p \in Positions : \A q \in g[p] : q < p}

InitGraph ==
    /\ index \in Graphs
    /\ revset = EagerRevset(<<>>)
    /\ pc = "expression"
    /\ cursor = NoIter
    /\ emitted = <<>>
    /\ probe = NoProbe
    /\ probed = <<>>
    /\ NoIdIndex
    /\ timestamps = CommitTimestamps
    /\ change_ids = <<>>
    /\ visible_heads = <<>>
    /\ expression \in
          {DagRange(Commits(a), Commits(b)) :
                a \in DescendingIdLists, b \in DescendingIdLists}
            \cup {Roots(Commits(a)) : a \in DescendingIdLists}
    /\ inner_result = NoOutcome
    /\ outcome = NoOutcome
    /\ count = 0
    /\ NoSecondCursor
    /\ NoCombination

SpecGraph == InitGraph /\ [][NextEvaluate]_vars

Iterated == pc \in {"drained", "probing"}
Members == SeqToSet(emitted)
Nested == revset \in Level2

(***************************************************************************)
(* C1: every consecutive pair emitted by iter() is strictly descending by   *)
(* position (so no position is emitted twice), for every set kind and every *)
(* composition over strictly descending leaves.                             *)
(***************************************************************************)
C1_IterStrictlyDescending == StrictlyDescending(emitted)

\* A nested union has emitted an entry of each operand and a shared one once.
C1_Witness ==
    /\ Iterated
    /\ Nested
    /\ revset.kind = "Union"
    /\ Len(emitted) = NestedCommits
    /\ Len(IterAll(revset.set1)) + Len(IterAll(revset.set2)) > NestedCommits

(***************************************************************************)
(* C2: a fresh probe, called on a strictly descending sequence of           *)
(* positions, returns Match at every position that iter() emits.            *)
(***************************************************************************)
C2_ProbeMatchesMembers ==
    \A i \in 1 .. Len(probed) :
        probed[i][1] \in Members => probed[i][2] = Match

\* A member of a nested set is matched after a higher position was probed
\* and did not match.
C2_Witness ==
    /\ pc = "probing"
    /\ Nested
    /\ Len(probed) >= 2
    /\ probed[1][2] # Match
    /\ probed[Len(probed)][1] \in Members
    /\ probed[Len(probed)][2] = Match

(***************************************************************************)
(* C3: a fresh probe, called on a strictly descending sequence of           *)
(* positions, never returns Match at a position that iter() does not emit.  *)
(***************************************************************************)
C3_ProbeRejectsNonMembers ==
    \A i \in 1 .. Len(probed) :
        probed[i][1] \notin Members => probed[i][2] # Match

\* A nested difference is probed at an entry of set1 that set2 removes.
C3_Witness ==
    /\ pc = "probing"
    /\ Nested
    /\ revset.kind = "Difference"
    /\ \E i \in 1 .. Len(probed) :
          /\ probed[i][1] \notin Members
          /\ probed[i][1] \in SeqToSet(IterAll(revset.set1))
          /\ probed[i][2] = NotThisOne

(***************************************************************************)
(* C4 as stated: at a position below every emitted position (any position  *)
(* when the set is empty) a fresh probe returns NeverAgain, for every set   *)
(* including Filter, Union and Difference sets.                             *)
(***************************************************************************)
BelowAllMembers(pos) == \A e \in Members : pos < e

C4_Original_NeverAgainBelowMembers ==
    \A i \in 1 .. Len(probed) :
        BelowAllMembers(probed[i][1]) => probed[i][2] = NeverAgain

RECURSIVE HasFilterOrDifference(_)
\* Whether a Filter or a Difference occurs in the set or in an operand of it
\* that its probe combines (a Children probe is built from its iterator).
HasFilterOrDifference(set) ==
    CASE set.kind \in {"Filter", "Difference"} -> TRUE
      [] set.kind = "Union" ->
            HasFilterOrDifference(set.set1) \/ HasFilterOrDifference(set.set2)
      [] OTHER -> FALSE

(***************************************************************************)
(* C4 amended: at a position below every emitted position a fresh probe     *)
(* returns NeverAgain when the set is an Eager, Walk or Children set or a   *)
(* Union of such sets; when a Filter or Difference is involved it returns   *)
(* NeverAgain or NotThisOne, never Match.                                   *)
(***************************************************************************)
C4_NeverAgainBelowMembers ==
    \A i \in 1 .. Len(probed) :
        BelowAllMembers(probed[i][1]) =>
            IF HasFilterOrDifference(revset)
            THEN probed[i][2] \in {NeverAgain, NotThisOne}
            ELSE probed[i][2] = NeverAgain

\* A union of two non-empty leaves is probed below all its members.
C4_Witness ==
    /\ pc = "probing"
    /\ revset.kind = "Union"
    /\ ~HasFilterOrDifference(revset)
    /\ Len(emitted) >= 2
    /\ probed # <<>>
    /\ BelowAllMembers(probed[Len(probed)][1])
    /\ probed[Len(probed)][2] = NeverAgain

(***************************************************************************)
(* C5: NeverAgain is sound: when a probe called in strictly descending      *)
(* order returns NeverAgain at p, iter() emits no position <= p.            *)
(***************************************************************************)
C5_NeverAgainSound ==
    \A i \in 1 .. Len(probed) :
        probed[i][2] = NeverAgain => \A e \in Members : e > probed[i][1]

\* A nested non-empty set answers NeverAgain after it has matched.
C5_Witness ==
    /\ pc = "probing"
    /\ Nested
    /\ Len(probed) >= 2
    /\ probed[1][2] = Match
    /\ probed[Len(probed)][2] = NeverAgain

(***************************************************************************)
(* C6: UnionRevset{A, B}.iter() emits exactly the positions in A or in B,   *)
(* each once: the result is the descending sequence of the union.           *)
(***************************************************************************)
C6_UnionIterIsUnion ==
    (Iterated /\ revset.kind = "Union") =>
        emitted = DescSeq(SeqToSet(IterAll(revset.set1))
                            \cup SeqToSet(IterAll(revset.set2)))

\* The operands share a position and each has one the other lacks.
C6_Witness ==
    /\ Iterated
    /\ revset.kind = "Union"
    /\ LET A == SeqToSet(IterAll(revset.set1))
           B == SeqToSet(IterAll(revset.set2))
       IN A \cap B # {} /\ A \ B # {} /\ B \ A # {}

(***************************************************************************)
(* C7: DifferenceRevset{set1: A, set2: B}.iter() emits exactly the          *)
(* positions in A and not in B, including those below B's lowest member.    *)
(***************************************************************************)
C7_DifferenceIterIsDifference ==
    (Iterated /\ revset.kind = "Difference") =>
        emitted = DescSeq(SeqToSet(IterAll(revset.set1))
                            \ SeqToSet(IterAll(revset.set2)))

\* A member of A below the lowest member of B is emitted, one in B is dropped.
C7_Witness ==
    /\ Iterated
    /\ revset.kind = "Difference"
    /\ LET A == SeqToSet(IterAll(revset.set1))
           B == SeqToSet(IterAll(revset.set2))
       IN /\ A \cap B # {}
          /\ \E e \in Members : \A b \in B : e < b

(***************************************************************************)
(* C8: FilterRevset{candidates: A, predicate: B} over two sets iterates     *)
(* exactly the positions in both, the same sequence as with A and B         *)
(* swapped.                                                                 *)
(***************************************************************************)
C8_IntersectionIter ==
    (Iterated /\ revset.kind = "Filter" /\ revset.predicate.kind # "Pure") =>
        /\ emitted = DescSeq(SeqToSet(IterAll(revset.candidates))
                                \cap SeqToSet(IterAll(revset.predicate)))
        /\ emitted = IterAll(FilterRevset(revset.predicate, revset.candidates))

\* A non-empty intersection of two different sets, neither inside the other.
C8_Witness ==
    /\ Iterated
    /\ revset.kind = "Filter"
    /\ revset.predicate.kind # "Pure"
    /\ emitted # <<>>
    /\ LET A == SeqToSet(IterAll(revset.candidates))
           B == SeqToSet(IterAll(revset.predicate))
       IN A \ B # {} /\ B \ A # {}

(***************************************************************************)
(* C9: Union(S, S) iterates exactly S, Difference(S, S) iterates nothing,   *)
(* and Difference(S, empty) iterates exactly S.                             *)
(***************************************************************************)
C9_SetIdentities ==
    Iterated =>
        /\ (revset.kind = "Union" /\ revset.set1 = revset.set2) =>
                emitted = IterAll(revset.set1)
        /\ (revset.kind = "Difference" /\ revset.set1 = revset.set2) =>
                emitted = <<>>
        /\ (revset.kind = "Difference" /\ revset.set2 = EagerRevset(<<>>)) =>
                emitted = IterAll(revset.set1)

\* Union(S, S) of a nested S with at least two members has been iterated.
C9_Witness ==
    /\ Iterated
    /\ Nested
    /\ revset.kind = "Union"
    /\ revset.set1 = revset.set2
    /\ Len(emitted) >= 2

(***************************************************************************)
(* C10: resolve_prefix_with on an IdIndex built by from_vec returns NoMatch *)
(* iff no stored key has the hex prefix, SingleMatch iff exactly one        *)
(* distinct key has it, then with the mapped value of every entry of that   *)
(* key (one per entry, duplicates kept), and AmbiguousMatch otherwise.      *)
(***************************************************************************)
\* The hex rendering of the key starts with the digits.
HasHexPrefix(key, digits) ==
    /\ Len(digits) <= 2 * Len(key)
    /\ \A i \in 1 .. Len(digits) : Hex(key)[i] = digits[i]

KeysWithPrefix(digits) ==
    {id_index[i][1] : i \in {j \in 1 .. Len(id_index) : HasHexPrefix(id_index[j][1], digits)}}

CountValues(values, value) ==
    Cardinality({i \in 1 .. Len(values) : values[i] = value})

C10_ResolvePrefix ==
    pc = "id_resolved" =>
        LET found == KeysWithPrefix(id_prefix)
        IN /\ id_result = NoMatch <=> found = {}
           /\ id_result.tag = "SingleMatch" <=> Cardinality(found) = 1
           /\ id_result = AmbiguousMatch <=> Cardinality(found) > 1
           /\ id_result.tag = "SingleMatch" =>
                \A v \in Values :
                    CountValues(id_result.values, value_mapper(v))
                        = Cardinality({i \in 1 .. Len(id_index) :
                                /\ id_index[i][1] \in found
                                /\ value_mapper(id_index[i][2]) = value_mapper(v)})

\* An odd-length prefix resolves to a key stored twice with the same value,
\* in an index that also holds a key without the prefix.
C10_Witness ==
    /\ pc = "id_resolved"
    /\ Len(id_prefix) % 2 = 1
    /\ id_result.tag = "SingleMatch"
    /\ Len(id_result.values) = 2
    /\ id_result.values[1] = id_result.values[2]
    /\ Len(id_index) = MaxEntries

(***************************************************************************)
(* C11. shortest_unique_prefix_len(k) is 1 plus the greatest number of      *)
(* leading hex digits k shares with any stored key other than k, and 0 for  *)
(* an empty index: the two neighbours the code looks at give what all the   *)
(* stored keys give.                                                        *)
(***************************************************************************)
StoredKeys == {id_index[i][1] : i \in 1 .. Len(id_index)}

C11_ShortestUniquePrefixLen ==
    pc = "id_measured" =>
        LET others == StoredKeys \ {id_key}
        IN /\ id_index = <<>> => id_len = 0
           /\ others # {} =>
                 id_len = 1 + Max({common_hex_len(id_key, k) : k \in others})

\* The key is stored twice, next to another key it shares digits with.
C11_Witness ==
    /\ pc = "id_measured"
    /\ Cardinality({i \in 1 .. Len(id_index) : id_index[i][1] = id_key}) = 2
    /\ StoredKeys \ {id_key} # {}
    /\ id_len >= 3

(***************************************************************************)
(* C12. When the key is a proper prefix, in whole bytes, of a stored key,   *)
(* shortest_unique_prefix_len(key) is the number of hex digits of the key   *)
(* plus one, whatever else is stored.                                       *)
(***************************************************************************)
IsProperPrefixOfStored ==
    \E k \in StoredKeys : StartsWith(k, id_key) /\ Len(k) > Len(id_key)

C12_ProperPrefixLen ==
    (pc = "id_measured" /\ IsProperPrefixOfStored) =>
        id_len = 2 * Len(id_key) + 1

\* The key is stored itself, with a longer key it is a prefix of and a
\* smaller key that shares a digit with it.
C12_Witness ==
    /\ pc = "id_measured"
    /\ IsProperPrefixOfStored
    /\ id_key \in StoredKeys
    /\ \E k \in StoredKeys : BytesLess(k, id_key) /\ common_hex_len(k, id_key) = 1
    /\ id_len = 2 * Len(id_key) + 1

(***************************************************************************)
(* C13. Latest returns at most count entries, in strictly descending        *)
(* position, and they are the count greatest candidates under the key       *)
(* (committer timestamp, position): the key of every kept entry is greater  *)
(* than the key of every candidate that was not kept.                       *)
(***************************************************************************)
Candidates == SeqToSet(IterAll(revset))
KeyGreater(a, b) ==
    \/ timestamps[a] > timestamps[b]
    \/ timestamps[a] = timestamps[b] /\ a > b

C13_LatestKeepsGreatest ==
    pc = "latest" =>
        /\ outcome.tag = "Ok"
        /\ LET kept == outcome.set.index_entries
           IN /\ Len(kept) <= count
              /\ StrictlyDescending(kept)
              /\ SeqToSet(kept) \subseteq Candidates
              /\ Len(kept) < count => SeqToSet(kept) = Candidates
              /\ \A a \in SeqToSet(kept) : \A b \in Candidates \ SeqToSet(kept) :
                    KeyGreater(a, b)

\* Two of three candidates are kept and the one dropped has the highest
\* position: the timestamps decide, not the order of iteration.
C13_Witness ==
    /\ pc = "latest"
    /\ count = 2
    /\ Cardinality(Candidates) = 3
    /\ outcome.tag = "Ok"
    /\ Len(outcome.set.index_entries) = 2
    /\ Max(Candidates) \notin SeqToSet(outcome.set.index_entries)

(***************************************************************************)
(* C14. The index built by change_id_index() holds exactly one (change id,  *)
(* position) pair per member of the revset. resolve_prefix returns the      *)
(* commit ids of exactly the members whose change id is the one change id   *)
(* of a member that matches the prefix; the change id of a commit outside   *)
(* the revset gives neither a match nor an ambiguity.                       *)
(***************************************************************************)
RevsetMembers == SeqToSet(IterAll(revset))
MemberChangeIdsWithPrefix(digits) ==
    {change_ids[p] : p \in {q \in RevsetMembers : HasHexPrefix(change_ids[q], digits)}}

C14_ChangeIdIndex ==
    /\ pc \in {"change_index", "change_resolved"} =>
          /\ Len(id_index) = Cardinality(RevsetMembers)
          /\ \A p \in RevsetMembers :
                Cardinality({i \in 1 .. Len(id_index) :
                                id_index[i] = <<change_ids[p], p>>}) = 1
    /\ pc = "change_resolved" =>
          LET found == MemberChangeIdsWithPrefix(id_prefix)
              holders == {p \in RevsetMembers : change_ids[p] \in found}
          IN /\ found = {} => id_result = NoMatch
             /\ Cardinality(found) > 1 => id_result = AmbiguousMatch
             /\ Cardinality(found) = 1 =>
                   /\ id_result.tag = "SingleMatch"
                   /\ Len(id_result.values) = Cardinality(holders)
                   /\ SeqToSet(id_result.values) = {commit_id(p) : p \in holders}

\* Two members share the change id that the prefix resolves to, and a commit
\* outside the revset has another change id with the same prefix.
C14_Witness ==
    /\ pc = "change_resolved"
    /\ id_result.tag = "SingleMatch"
    /\ Len(id_result.values) = 2
    /\ \E q \in Positions \ RevsetMembers :
          /\ HasHexPrefix(change_ids[q], id_prefix)
          /\ change_ids[q] \notin MemberChangeIdsWithPrefix(id_prefix)

(***************************************************************************)
(* C15. Present(x) yields the result of x when x evaluates successfully,    *)
(* the empty set when x fails with NoSuchRevision, and the same error       *)
(* unchanged when x fails with AmbiguousIdPrefix or StoreError.             *)
(***************************************************************************)
C15_Present ==
    pc = "present_done" =>
        /\ inner_result.tag = "Ok" => outcome = inner_result
        /\ (inner_result.tag = "Err" /\ inner_result.error.kind = "NoSuchRevision") =>
              /\ outcome.tag = "Ok"
              /\ IterAll(outcome.set) = <<>>
        /\ (inner_result.tag = "Err"
                /\ inner_result.error.kind \in {"AmbiguousIdPrefix", "StoreError"}) =>
              outcome = inner_result

\* The operand failed with NoSuchRevision and Present gave an empty set.
C15_Witness ==
    /\ pc = "present_done"
    /\ inner_result = Err(NoSuchRevision("foo"))
    /\ outcome.tag = "Ok"
    /\ IterAll(outcome.set) = <<>>

(***************************************************************************)
(* C16. Evaluating an expression that holds a Symbol, Branches,             *)
(* RemoteBranches, Tags, GitRefs or GitHead node at any depth, inside       *)
(* Present included, panics: it gives neither a set nor a RevsetError.      *)
(***************************************************************************)
RECURSIVE HasUnresolved(_)
HasUnresolved(expr) ==
    \/ expr.kind \in UnresolvedKinds
    \/ \E field \in DOMAIN expr \cap
            {"roots", "heads", "candidates", "complement", "expression1", "expression2"} :
          HasUnresolved(expr[field])

C16_UnresolvedPanics ==
    (pc # "expression" /\ HasUnresolved(expression)) => outcome = Panic

\* A Symbol two levels down, under a Present.
C16_Witness ==
    /\ pc = "failed"
    /\ outcome = Panic
    /\ expression.kind = "Present"
    /\ expression.candidates.kind \notin UnresolvedKinds
    /\ HasUnresolved(expression.candidates)

(***************************************************************************)
(* C17. All evaluates to exactly the ancestors (inclusive) of the visible   *)
(* heads; for an x holding a commit that is not an ancestor of any visible  *)
(* head, Intersection(All, x) is not x: the hidden commit is left out.      *)
(***************************************************************************)
RECURSIVE IsAncestorOrSelf(_, _)
IsAncestorOrSelf(p, q) ==
    p = q \/ \E parent \in index[q] : IsAncestorOrSelf(p, parent)

VisibleHeadPositions ==
    {p \in Positions : \E i \in 1 .. Len(visible_heads) : visible_heads[i] = commit_id(p)}
Visible == {p \in Positions : \E h \in VisibleHeadPositions : IsAncestorOrSelf(p, h)}
ListedPositions(ids) ==
    {p \in Positions : \E i \in 1 .. Len(ids) : ids[i] = commit_id(p)}

C17_AllIsVisibleAncestors ==
    /\ (pc # "expression" /\ expression = All) =>
          /\ outcome.tag = "Ok"
          /\ IterAll(outcome.set) = DescSeq(Visible)
    /\ (/\ pc # "expression"
        /\ expression.kind = "Intersection"
        /\ expression.expression1 = All
        /\ expression.expression2.kind = "Commits"
        /\ ListedPositions(expression.expression2.commit_ids) \ Visible # {}) =>
          /\ outcome.tag = "Ok"
          /\ SeqToSet(IterAll(outcome.set))
                = ListedPositions(expression.expression2.commit_ids) \cap Visible
          /\ SeqToSet(IterAll(outcome.set))
                # ListedPositions(expression.expression2.commit_ids)

\* x holds a visible and a hidden commit: All & x keeps the visible one only.
C17_Witness ==
    /\ pc = "drained"
    /\ expression.kind = "Intersection"
    /\ expression.expression1 = All
    /\ expression.expression2.kind = "Commits"
    /\ ListedPositions(expression.expression2.commit_ids) \ Visible # {}
    /\ Len(emitted) = 1
    /\ Cardinality(ListedPositions(expression.expression2.commit_ids)) = 2

(***************************************************************************)
(* C18. Cursors and probes of one set are independent: two cursors from     *)
(* separate iter() calls and a probe from to_predicate_fn(), advanced in    *)
(* any interleaving, are each in the state, and have each produced the      *)
(* results, of the same calls made alone on a fresh cursor or probe; a      *)
(* cursor opened after another was drained yields the full sequence again.  *)
(***************************************************************************)
RECURSIVE AfterNexts(_, _)
\* A cursor after n calls of next() that each returned an entry.
AfterNexts(it, n) == IF n = 0 THEN it ELSE AfterNexts(IterNext(it).iter, n - 1)

RECURSIVE ProbedAlone(_, _)
\* What a probe answers, and the probe it becomes, on a sequence of positions.
ProbedAlone(pr, calls) ==
    IF calls = <<>> THEN [results |-> <<>>, probe |-> pr]
    ELSE LET r == ProbeCall(pr, Head(calls))
             rest == ProbedAlone(r.probe, Tail(calls))
         IN [results |-> <<r.result>> \o rest.results, probe |-> rest.probe]

IsPrefix(s, t) == Len(s) <= Len(t) /\ s = SubSeq(t, 1, Len(s))

AsRunAlone(c, out) ==
    CASE c = NoIter -> out = <<>>
      [] c = Dropped -> out = IterAll(revset)
      [] OTHER -> /\ IsPrefix(out, IterAll(revset))
                  /\ c = AfterNexts(NewIter(revset), Len(out))

RECURSIVE EntriesHeld(_)
\* The entries a cursor or probe has already pulled from a set and holds:
\* the collected roots of a Children cursor and the peeked entries.
EntriesHeld(it) ==
    CASE it.kind \in {"VecIter", "PureProbe"} -> 0
      [] it.kind = "Fuse" -> IF it.iter = None THEN 0 ELSE EntriesHeld(it.iter[1])
      [] it.kind = "Peekable" ->
            (IF it.peeked # None /\ it.peeked[1] # None THEN 1 ELSE 0)
                + EntriesHeld(it.iter)
      [] it.kind = "ChildrenIter" -> Cardinality(it.roots) + EntriesHeld(it.candidates)
      [] it.kind = "FilterIter" ->
            EntriesHeld(it.candidates_iter) + EntriesHeld(it.predicate)
      [] it.kind \in {"UnionIter", "DifferenceIter"} ->
            EntriesHeld(it.iter1) + EntriesHeld(it.iter2)
      [] it.kind = "IterProbe" -> EntriesHeld(it.iter)
      [] it.kind \in {"FilterProbe", "UnionProbe", "DifferenceProbe"} ->
            EntriesHeld(it.p1) + EntriesHeld(it.p2)

RECURSIVE RootsOfChildren(_)
\* The entries of the root sets of the Children sets that iter() goes through.
RootsOfChildren(set) ==
    CASE set.kind \in {"Eager", "Walk", "Pure"} -> 0
      [] set.kind = "Children" ->
            Len(IterAll(set.root_set)) + RootsOfChildren(set.candidate_set)
      [] set.kind = "Filter" ->
            RootsOfChildren(set.candidates) + RootsOfChildren(set.predicate)
      [] set.kind \in {"Union", "Difference"} ->
            RootsOfChildren(set.set1) + RootsOfChildren(set.set2)

OperandFields ==
    {"roots", "heads", "candidates", "complement", "expression1", "expression2"}

RECURSIVE CompilesEagerly(_)
\* The expression holds a node whose arm iterates a set while compiling.
CompilesEagerly(expr) ==
    \/ expr.kind \in {"All", "Ancestors", "Range", "DagRange", "Children",
                       "Heads", "Roots", "Filter", "NotIn"}
    \/ expr.kind = "Latest" /\ expr.count > 0
    \/ \E field \in DOMAIN expr \cap OperandFields : CompilesEagerly(expr[field])

\* The number of entries of the set that an operand compiles to.
EntriesOf(expr) == Len(IterAll(evaluate(expr).set))

\* The entries of its operand sets that the arm of the expression drains.
DrainedByArm(expr) ==
    CASE expr.kind = "Range" -> EntriesOf(expr.roots) + EntriesOf(expr.heads)
      [] expr.kind = "Ancestors" -> EntriesOf(expr.heads)
      [] expr.kind = "All" -> EntriesOf(VisibleHeads)
      [] expr.kind = "DagRange" ->
            EntriesOf(expr.roots) + EntriesOf(ancestors(expr.heads))
      [] expr.kind = "Heads" -> EntriesOf(expr.candidates)
      [] expr.kind = "Roots" ->
            EntriesOf(connected(expr.candidates)) + EntriesOf(expr.candidates)
      [] expr.kind = "Latest" ->
            IF expr.count > 0 THEN EntriesOf(expr.candidates) ELSE 0
      [] OTHER -> 0

Compiled == pc # "expression" /\ outcome.tag = "Ok"
FreshCursor == pc = "iterating" /\ cursor = NewIter(revset)

C19_Original_ColdIterator ==
    /\ Compiled => outcome.pulled = 0
    /\ FreshCursor => EntriesHeld(cursor) = 0

C19_EagerAndLazyWork ==
    /\ Compiled =>
          /\ ~CompilesEagerly(expression) => outcome.pulled = 0
          /\ outcome.pulled >= DrainedByArm(expression)
    /\ FreshCursor =>
          /\ EntriesHeld(cursor) = RootsOfChildren(revset)
          /\ revset.kind = "Children" =>
                cursor.roots = SeqToSet(IterAll(revset.root_set))

\* Children of two commits: compiling has drained sets, and the cursor that
\* iter() returned holds both roots before any next().
C19_Witness ==
    /\ FreshCursor
    /\ emitted = <<>>
    /\ expression.kind = "Children"
    /\ revset.kind = "Children"
    /\ Cardinality(cursor.roots) = 2
    /\ outcome.pulled > 2

(***************************************************************************)
(* C20. A probe called on non-increasing positions. As stated: every call   *)
(* at a repeated position returns what the first call at that position      *)
(* returned, Match for a member (C20_Original_RepeatedCallsAgree). As the   *)
(* code has it: the first call at a position returns Match exactly when     *)
(* the position is a member, and consumes the entry; a repeated call at a   *)
(* position never returns Match, and returns NeverAgain when the call       *)
(* before it did.                                                           *)
(***************************************************************************)
Repeated(i) == i > 1 /\ probed[i][1] = probed[i - 1][1]

C20_Original_RepeatedCallsAgree ==
    \A i \in 1 .. Len(probed) : Repeated(i) => probed[i][2] = probed[i - 1][2]

C20_RepeatedCallsNeverMatch ==
    \A i \in 1 .. Len(probed) :
        IF Repeated(i)
        THEN /\ probed[i][2] # Match
             /\ probed[i - 1][2] = NeverAgain => probed[i][2] = NeverAgain
        ELSE probed[i][2] = Match <=> probed[i][1] \in SeqToSet(IterAll(revset))

\* A member was matched, the repeated call was answered NotThisOne, and the
\* next lower member was matched after it.
C20_Witness ==
    /\ pc = "repeating"
    /\ Len(probed) = 3
    /\ probed[1][2] = Match
    /\ Repeated(2)
    /\ probed[2][2] = NotThisOne
    /\ probed[3][1] < probed[2][1]
    /\ probed[3][2] = Match

(***************************************************************************)
(* C21. A probe tolerates skipped positions: the result a probe returns at  *)
(* a position, after any strictly descending sequence of calls at higher    *)
(* positions, is the result a fresh probe returns when called at that       *)
(* position first, so it is the same whichever positions were probed or     *)
(* skipped before.                                                          *)
(***************************************************************************)
C21_SkippedPositions ==
    \A i \in 1 .. Len(probed) :
        probed[i][2] = ProbeCall(NewProbe(revset), probed[i][1]).result

\* The lowest entry is matched after the highest position was probed and a
\* member between the two was skipped.
C21_Witness ==
    /\ pc = "probing"
    /\ Len(probed) = 2
    /\ probed[1][1] = NumCommits - 1
    /\ probed[2][1] = 0
    /\ probed[2][2] = Match
    /\ \E e \in Members : 0 < e /\ e < NumCommits - 1

(***************************************************************************)
(* C22. NeverAgain is terminal: once a probe of any set has returned        *)
(* NeverAgain, every later call at a lower position returns NeverAgain too, *)
(* never Match or NotThisOne.                                               *)
(***************************************************************************)
C22_NeverAgainTerminal ==
    \A i \in 1 .. Len(probed) : \A j \in 1 .. Len(probed) :
        (i < j /\ probed[i][2] = NeverAgain) => probed[j][2] = NeverAgain

\* A nested difference answered Match, then NeverAgain twice.
C22_Witness ==
    /\ pc = "probing"
    /\ Nested
    /\ revset.kind = "Difference"
    /\ Len(probed) = 3
    /\ probed[1][2] = Match
    /\ probed[2][2] = NeverAgain
    /\ probed[3][2] = NeverAgain

(***************************************************************************)
(* C23. PredicateMatch::and: the result is Match iff both inputs are Match, *)
(* NeverAgain iff at least one input is NeverAgain, NotThisOne otherwise;   *)
(* and is commutative.                                                      *)
(***************************************************************************)
Calls(method) == {i \in 1 .. Len(combined) : combined[i].method = method}

C23_And ==
    \A i \in Calls("and") :
        LET a == combined[i].self
            b == combined[i].other
            r == combined[i].result
        IN /\ r = Match <=> (a = Match /\ b = Match)
           /\ r = NeverAgain <=> (a = NeverAgain \/ b = NeverAgain)
           /\ r = NotThisOne <=> (r # Match /\ r # NeverAgain)
           /\ r = and(b, a)

\* NotThisOne.and(NeverAgain) gave NeverAgain.
C23_Witness ==
    /\ Len(combined) = 1
    /\ combined[1] = [method |-> "and", self |-> NotThisOne, other |-> NeverAgain,
                      result |-> NeverAgain]

(***************************************************************************)
(* C24. PredicateMatch::or: the result is NeverAgain iff both inputs are    *)
(* NeverAgain, Match iff at least one input is Match, NotThisOne otherwise; *)
(* or is commutative.                                                       *)
(***************************************************************************)
C24_Or ==
    \A i \in Calls("or") :
        LET a == combined[i].self
            b == combined[i].other
            r == combined[i].result
        IN /\ r = NeverAgain <=> (a = NeverAgain /\ b = NeverAgain)
           /\ r = Match <=> (a = Match \/ b = Match)
           /\ r = NotThisOne <=> (r # Match /\ r # NeverAgain)
           /\ r = or(b, a)

\* NeverAgain.or(NotThisOne) gave NotThisOne.
C24_Witness ==
    /\ Len(combined) = 1
    /\ combined[1] = [method |-> "or", self |-> NeverAgain, other |-> NotThisOne,
                      result |-> NotThisOne]

(***************************************************************************)
(* C25. PredicateMatch::and_not(a, b): NeverAgain iff a is NeverAgain;      *)
(* otherwise NotThisOne if b is Match; otherwise Match iff a is Match, else *)
(* NotThisOne. b = NeverAgain never makes the result NeverAgain.            *)
(***************************************************************************)
C25_AndNot ==
    \A i \in Calls("and_not") :
        LET a == combined[i].self
            b == combined[i].other
            r == combined[i].result
        IN /\ r = NeverAgain <=> a = NeverAgain
           /\ (a # NeverAgain /\ b = Match) => r = NotThisOne
           /\ (a # NeverAgain /\ b # Match) => (r = Match <=> a = Match)
           /\ r \in PredicateMatch
           /\ (a = Match /\ b = NeverAgain) => r = Match
           /\ (a = NotThisOne /\ b = NeverAgain) => r = NotThisOne

\* Match.and_not(NeverAgain) gave Match.
C25_Witness ==
    /\ Len(combined) = 1
    /\ combined[1] = [method |-> "and_not", self |-> Match, other |-> NeverAgain,
                      result |-> Match]

(***************************************************************************)
(* C26. FilterRevset.iter() visits the candidates in order and calls the    *)
(* predicate probe once per visited candidate: a candidate is emitted on    *)
(* Match, skipped on NotThisOne, and the first NeverAgain ends the          *)
(* iteration, that candidate and the later ones not being emitted and the   *)
(* later ones not being visited; with a predicate that never returns        *)
(* NeverAgain exactly the candidates that Match are emitted.                *)
(***************************************************************************)
RECURSIVE Visit(_, _)
\* The candidates emitted, the candidates left unvisited and the probe after
\* its calls, when the candidates are visited until the first NeverAgain.
Visit(candidates, pr) ==
    IF candidates = <<>> THEN [emitted |-> <<>>, unvisited |-> <<>>, probe |-> pr]
    ELSE LET m == ProbeCall(pr, Head(candidates))
             later == Visit(Tail(candidates), m.probe)
         IN CASE m.result = Match ->
                    [later EXCEPT !.emitted = <<Head(candidates)>> \o later.emitted]
              [] m.result = NotThisOne -> later
              [] OTHER -> [emitted |-> <<>>, unvisited |-> Tail(candidates),
                           probe |-> m.probe]

C26_FilterIter ==
    (Iterated /\ revset.kind = "Filter") =>
        LET visit == Visit(IterAll(revset.candidates), NewProbe(revset.predicate))
        IN /\ emitted = visit.emitted
           /\ Drain(cursor.candidates_iter) = visit.unvisited
           /\ cursor.predicate = visit.probe
           /\ revset.predicate.kind = "Pure" =>
                 emitted = SelectSeq(IterAll(revset.candidates),
                                     LAMBDA c : c \in revset.predicate.truths)

\* The predicate matched the first candidate and answered NeverAgain at the
\* second; the third candidate was never visited.
C26_Witness ==
    /\ Iterated
    /\ revset.kind = "Filter"
    /\ Len(IterAll(revset.candidates)) = 3
    /\ Len(emitted) = 1
    /\ Len(Drain(cursor.candidates_iter)) = 1

(***************************************************************************)
(* C27. For every list of commit ids of the index, in any order and with    *)
(* any repetitions, Commits(ids) and VisibleHeads evaluate to an Eager set  *)
(* whose entries are strictly descending by position, hold each listed      *)
(* commit exactly once, and hold nothing else; iter() emits these entries.  *)
(***************************************************************************)
ListedIds ==
    IF expression.kind = "Commits" THEN expression.commit_ids ELSE visible_heads

C27_CommitsSortedDeduped ==
    (pc # "expression" /\ expression.kind \in {"Commits", "VisibleHeads"}) =>
        /\ outcome.tag = "Ok"
        /\ outcome.set.kind = "Eager"
        /\ StrictlyDescending(outcome.set.index_entries)
        /\ SeqToSet(outcome.set.index_entries) = ListedPositions(ListedIds)
        /\ pc = "drained" => emitted = outcome.set.index_entries

\* A list of three ids, the first repeated at the end and below the second.
C27_Witness ==
    /\ pc = "drained"
    /\ expression.kind = "Commits"
    /\ Len(ListedIds) = 3
    /\ ListedIds[1] = ListedIds[3]
    /\ entry_by_id(ListedIds[1]) < entry_by_id(ListedIds[2])
    /\ Len(emitted) = 2

(***************************************************************************)
(* C28. On every commit graph in which a parent has a lower position than   *)
(* its child, DagRange{roots, heads} evaluates to exactly the commits that  *)
(* are ancestors-or-self of some head and are a root or a descendant of     *)
(* some root, in strictly descending position; a root that is not an        *)
(* ancestor of any head is not in the result.                               *)
(***************************************************************************)
RootPositions == ListedPositions(expression.roots.commit_ids)
HeadPositions == ListedPositions(expression.heads.commit_ids)
InDagRange ==
    {p \in Positions :
        /\ \E h \in HeadPositions : IsAncestorOrSelf(p, h)
        /\ \E r \in RootPositions : IsAncestorOrSelf(r, p)}

C28_DagRange ==
    (pc # "expression" /\ expression.kind = "DagRange") =>
        /\ outcome.tag = "Ok"
        /\ IterAll(outcome.set) = DescSeq(InDagRange)
        /\ \A r \in RootPositions :
              (\A h \in HeadPositions : ~IsAncestorOrSelf(r, h)) =>
                  r \notin SeqToSet(IterAll(outcome.set))
        /\ pc = "drained" => emitted = DescSeq(InDagRange)

\* Two roots, one of them not an ancestor of the head: the result holds the
\* other root and one more commit and leaves that root out.
C28_Witness ==
    /\ pc = "drained"
    /\ expression.kind = "DagRange"
    /\ Cardinality(RootPositions) = 2
    /\ Cardinality(HeadPositions) = 1
    /\ \E r \in RootPositions : \A h \in HeadPositions : ~IsAncestorOrSelf(r, h)
    /\ Len(emitted) = 2

(***************************************************************************)
(* C29. Roots(candidates) evaluates to exactly the candidates none of whose *)
(* parents is in the connected set of the candidates (the DAG range from    *)
(* the candidates to the candidates), that is, the candidates without a     *)
(* proper ancestor among the candidates; the result is a subset of the      *)
(* candidates in strictly descending position.                              *)
(***************************************************************************)
CandidatePositions == ListedPositions(expression.candidates.commit_ids)
Connected ==
    {p \in Positions :
        /\ \E c \in CandidatePositions : IsAncestorOrSelf(p, c)
        /\ \E c \in CandidatePositions : IsAncestorOrSelf(c, p)}

C29_Roots ==
    (pc # "expression" /\ expression.kind = "Roots") =>
        /\ outcome.tag = "Ok"
        /\ StrictlyDescending(IterAll(outcome.set))
        /\ SeqToSet(IterAll(outcome.set))
              = {c \in CandidatePositions : index[c] \cap Connected = {}}
        /\ SeqToSet(IterAll(outcome.set))
              = {c \in CandidatePositions :
                    \A a \in CandidatePositions \ {c} : ~IsAncestorOrSelf(a, c)}
        /\ pc = "drained" => emitted = IterAll(outcome.set)

\* A candidate whose parent is not a candidate but whose grandparent is: it
\* is not a root.
C29_Witness ==
    /\ pc = "drained"
    /\ expression.kind = "Roots"
    /\ Len(emitted) = 1
    /\ \E c \in CandidatePositions :
          /\ c \notin SeqToSet(emitted)
          /\ index[c] # {}
          /\ index[c] \cap CandidatePositions = {}

(***************************************************************************)
(* C30. ChildrenRevset.iter() emits exactly the entries of candidate_set    *)
(* that have at least one parent position in root_set, in the order of      *)
(* candidate_set; the probe of a Children set returns Match exactly at      *)
(* those entries.                                                           *)
(***************************************************************************)
ChildrenOfRoots ==
    SelectSeq(IterAll(revset.candidate_set),
              LAMBDA c : index[c] \cap SeqToSet(IterAll(revset.root_set)) # {})

C30_ChildrenIter ==
    (Iterated /\ revset.kind = "Children") =>
        /\ emitted = ChildrenOfRoots
        /\ \A i \in 1 .. Len(probed) :
              probed[i][2] = Match <=> probed[i][1] \in SeqToSet(ChildrenOfRoots)

\* A merge commit with one of its two parents among the roots is emitted and
\* matched; a candidate without a parent among the roots is not.
C30_Witness ==
    /\ pc = "probing"
    /\ revset.kind = "Children"
    /\ \E c \in SeqToSet(emitted) :
          /\ Cardinality(index[c]) = 2
          /\ Cardinality(index[c] \cap SeqToSet(IterAll(revset.root_set))) = 1
          /\ \E i \in 1 .. Len(probed) : probed[i] = <<c, Match>>
    /\ \E c \in SeqToSet(IterAll(revset.candidate_set)) :
          /\ c \notin SeqToSet(emitted)
          /\ \E i \in 1 .. Len(probed) : probed[i][1] = c /\ probed[i][2] # Match

(***************************************************************************)
(* C31. The order that IdIndex::from_vec gives the entries. As stated: the  *)
(* sort is stable, entries with equal keys keep their input order, so       *)
(* SingleMatch lists the values of a duplicated key in insertion order      *)
(* (C31_Original_StableSort). As the code has it: the backing sequence is   *)
(* a rearrangement of the input sorted by key, entries with equal keys are  *)
(* in any order, and SingleMatch lists the values of the matched key in the *)
(* order of the backing sequence.                                           *)
(***************************************************************************)
\* f rearranges the input into the backing sequence.
RearrangedBy(f, input, stored) ==
    /\ Len(stored) = Len(input)
    /\ \A i \in 1 .. Len(input) : stored[i] = input[f[i]]

\* Entries with equal keys keep the order they have in the input.
KeepsInputOrder(f, input) ==
    \A i, j \in 1 .. Len(input) :
        (i < j /\ input[f[i]][1] = input[f[j]][1]) => f[i] < f[j]

\* The values stored under the key of the first matched entry, in the order
\* of the backing sequence.
ValuesInStoredOrder(stored, key) ==
    LET run == SelectSeq(stored, LAMBDA entry : entry[1] = key)
    IN [i \in 1 .. Len(run) |-> run[i][2]]

C31_Original_StableSort ==
    [][pc = "id_input" =>
          /\ SortedByKey(id_index')
          /\ \E f \in IndexPermutations(Len(id_input)) :
                /\ RearrangedBy(f, id_input, id_index')
                /\ KeepsInputOrder(f, id_input)]_vars

C31_SortedRearrangement ==
    [][/\ pc = "id_input" =>
             /\ SortedByKey(id_index')
             /\ \E f \in IndexPermutations(Len(id_input)) :
                   RearrangedBy(f, id_input, id_index')
       /\ (pc = "id_built" /\ id_result'.tag = "SingleMatch") =>
             \E i \in 1 .. Len(id_index) :
                 /\ matches(HexPrefixNew(id_prefix'), id_index[i][1])
                 /\ id_result'.values = ValuesInStoredOrder(id_index, id_index[i][1])]_vars

\* A key stored twice, its higher value first, resolved to both values in
\* that order.
C31_Witness ==
    /\ pc = "id_resolved"
    /\ id_result.tag = "SingleMatch"
    /\ id_result.values = <<1, 0>>
    /\ \E i \in 1 .. (Len(id_index) - 1) :
          /\ id_index[i][1] = id_index[i + 1][1]
          /\ id_index[i][2] = 1
          /\ id_index[i + 1][2] = 0


(***************************************************************************)
(* C32. For a candidate set that yields n entries and any count k (k = 0,   *)
(* n = 0 and k > n included), Latest completes without a panic and returns  *)
(* exactly min(k, n) entries; the heap holds at most k items after the      *)
(* take(k) and after every iteration of the loop over the rest.             *)
(***************************************************************************)
CandidateEntries == IterAll(revset)
FirstItems(candidates, k) ==
    {make_rev_item(candidates[i]) :
        i \in 1 .. (IF k < Len(candidates) THEN k ELSE Len(candidates))}
\* The heap after the first j iterations of the loop over the candidates that
\* follow the first k.
HeapAfter(candidates, k, j) ==
    LatestLoop(FirstItems(candidates, k), SubSeq(candidates, k + 1, k + j))

C32_LatestCount ==
    pc = "latest" =>
        /\ outcome.tag = "Ok"
        /\ Len(outcome.set.index_entries) =
              (IF count < Len(CandidateEntries) THEN count ELSE Len(CandidateEntries))
        /\ count > 0 =>
              \A j \in 0 .. Len(CandidateEntries) :
                  (count + j <= Len(CandidateEntries)) =>
                      /\ ~HeapAfter(CandidateEntries, count, j).panicked
                      /\ Cardinality(HeapAfter(CandidateEntries, count, j).latest_items)
                            <= count

\* The count is greater than the number of candidates, of which there are at
\* least two: the heap holds them all, the loop has nothing left, and all of
\* them are returned.
C32_Witness ==
    /\ pc = "latest"
    /\ Len(CandidateEntries) >= 2
    /\ count > Len(CandidateEntries)
    /\ outcome.tag = "Ok"
    /\ Len(outcome.set.index_entries) = Len(CandidateEntries)


(***************************************************************************)
(* C33. shortest_unique_prefix_len agrees with resolve_prefix_with: for a   *)
(* stored key k with L = shortest_unique_prefix_len(k) and 1 <= L <= the    *)
(* number of hex digits of k, the first L hex digits of k resolve to        *)
(* SingleMatch with the values stored under k, and the first m hex digits,  *)
(* for every m with 1 <= m < L, resolve to AmbiguousMatch.                  *)
(***************************************************************************)
C33_PrefixLenAgreesWithResolve ==
    (/\ pc = "id_resolved"
     /\ id_key \in StoredKeys
     /\ 1 <= id_len
     /\ id_len <= Len(Hex(id_key))) =>
        /\ Len(id_prefix) = id_len =>
              id_result = SingleMatch(ValuesInStoredOrder(id_index, id_key))
        /\ Len(id_prefix) < id_len => id_result = AmbiguousMatch

\* A two-byte key stored twice with different values, next to a key that
\* shares two hex digits with it: three digits single it out.
C33_Witness ==
    /\ pc = "id_resolved"
    /\ id_key \in StoredKeys
    /\ id_len = 3
    /\ Len(id_prefix) = 3
    /\ id_result.tag = "SingleMatch"
    /\ SeqToSet(id_result.values) = Values
    /\ Len(id_index) = MaxEntries


(***************************************************************************)
(* C34. The cursor of a Filter set stays exhausted: once next() has         *)
(* returned None, whether the candidates ran out or the predicate answered  *)
(* NeverAgain, every later next() returns None too. A later call still      *)
(* pulls from the candidates, until the fused candidates have run out.      *)
(***************************************************************************)
C34_FilterStaysExhausted ==
    [][pc = "drained" =>
          /\ emitted' = emitted
          /\ cursor.candidates_iter.iter # None =>
                cursor'.candidates_iter # cursor.candidates_iter]_vars

\* The predicate set holds the first of three candidates only: the probe
\* answers NeverAgain at the second candidate, and the calls after that None
\* have pulled the rest of the candidates without yielding any.
C34_Witness ==
    /\ pc = "drained"
    /\ revset.candidates.kind = "Eager"
    /\ revset.predicate.kind = "Eager"
    /\ Len(revset.candidates.index_entries) = 3
    /\ revset.predicate.index_entries = <<revset.candidates.index_entries[1]>>
    /\ emitted = <<revset.candidates.index_entries[1]>>
    /\ cursor.candidates_iter.iter = None

====
